---- MODULE Spec2Model ----
(***************************************************************************)
(* Model of the event-correlation repository: the Munkres assignment       *)
(* solver and the MunkresMatcher built on it (algorithms/munkresMatcher.py)*)
(* the distributions of core/distribution.py and the Event of              *)
(* core/event.py.                                                          *)
(*                                                                         *)
(* Arrays are functions over 0-based index ranges, as in numpy. The        *)
(* working matrix C of the solver is a float64 array: numbers at the scale *)
(* of sys.maxsize absorb small addends, which fl() models on a scaled      *)
(* sentinel (TLC's integers are 32 bits wide, sys.maxsize is 2^63 - 1).    *)
(***************************************************************************)
EXTENDS Integers, Sequences, FiniteSets, TLC

VARIABLES
    self,         \* the fields of the Munkres instance
    step,         \* local variable step of Munkres.compute; 0 while no call runs
    heap,         \* the arrays compute touches: the caller's and the local copy
    cost_matrix,  \* which array of heap the local name cost_matrix refers to
    result,       \* the array returned by the last compute call
    raised,       \* the exception that ended the last call, "" when none
    solved,       \* number of compute calls this instance has completed
    given,        \* the caller's matrix as it was when the running call began
    matcher,      \* locals of MunkresMatcher._compute
    static,       \* the fields of a StaticDistribution, and what it handed out
    distribution, \* the last call into core/distribution.py: arguments and outcome
    events,       \* the Event objects that exist, and the outcome of the last event.load
    kde,          \* the fields of a KdeDistribution
    threads,      \* two callers of compute on shared Munkres instances
    timer         \* a Timer, the clock it reads and the exit handlers it registered

vars == <<self, step, heap, cost_matrix, result, raised, solved, given, matcher, static,
          distribution, events, kde, threads, timer>>

----------------------------------------------------------------------------
(* Bounds of the model *)

MaxDim == 3
MaxCells == 6
MaxCost == 1
ReuseCells == 1
MaxCalls == 2
MaxLen == 2
MaxTime == 3
MaxListLen == 2
MaxDraws == 3
MaxParam == 2
MaxSamples == 2
MaxEvents == 3
MaxNest == 1
MaxStamp == 1
MaxPoint == 3
GridPoints == 3
ConcCells == 2
ConcCost == 1
ConcGrowth == 2
MaxClock == 4
Grain == 2
MaxStarts == 2

----------------------------------------------------------------------------
(* numpy helpers *)

Idx(k) == 0 .. (k - 1)

None == <<>>

num_rows(m) == Cardinality(DOMAIN m)

num_cols(m) == Cardinality(DOMAIN m[0])

Max2(a, b) == IF a >= b THEN a ELSE b

Min2(a, b) == IF a <= b THEN a ELSE b

SetMin(S) == CHOOSE x \in S : \A y \in S : x <= y

\* the sum of the entries of a matrix
RECURSIVE SumCells(_, _)
SumCells(m, cells) ==
    IF cells = {} THEN 0
    ELSE LET z == CHOOSE c \in cells : TRUE
         IN  m[z[1]][z[2]] + SumCells(m, cells \ {z})

Sum2(m) == SumCells(m, (DOMAIN m) \X (DOMAIN m[0]))

\* sys.maxsize, scaled: every cost and every sum of costs of the model stays
\* far below half of it
sys_maxsize == 1000000

\* float64 rounding of an exact result x: at the scale of sys.maxsize only
\* multiples of it are kept (2^63 - 3 rounds to 2^63), small numbers are exact
fl(x) ==
    IF 2 * x >= sys_maxsize
    THEN ((2 * x + sys_maxsize) \div (2 * sys_maxsize)) * sys_maxsize
    ELSE x

\* a Python index into an axis of length n: negative indices count from the end
py(i, n) == IF i < 0 THEN i + n ELSE i

\* Python evaluates an argument once, before the call: F(a) with a evaluated first
call(F(_), a) == CHOOSE r \in {F(v) : v \in {a}} : TRUE

call2(F(_, _), a, b) == CHOOSE r \in {F(v, w) : v \in {a}, w \in {b}} : TRUE

call3(F(_, _, _), a, b, c) ==
    CHOOSE r \in {F(v, w, x) : v \in {a}, w \in {b}, x \in {c}} : TRUE

zeros1(n, v) == [i \in Idx(n) |-> v]

zeros2(p, q) == [i \in Idx(p) |-> [j \in Idx(q) |-> 0]]

----------------------------------------------------------------------------
(* Munkres.__init__ *)

Munkres_init ==
    [C |-> None, row_covered |-> zeros1(0, FALSE), col_covered |-> zeros1(0, FALSE),
     n |-> 0, Z0_r |-> 0, Z0_c |-> 0, marked |-> None, path |-> None,
     original_length |-> 0, original_width |-> 0]

(* Munkres.pad_matrix *)
pad_matrix(matrix) ==
    LET n == Max2(num_rows(matrix), num_cols(matrix))
    IN  [i \in Idx(n) |-> [j \in Idx(n) |->
            IF i < num_rows(matrix) /\ j < num_cols(matrix)
            THEN fl(matrix[i][j]) ELSE 0]]

(* cost_matrix = np.array(cost_matrix): a new array object with the same
   contents; the local name refers to the new object *)
np_array_alias(h, src) == [heap |-> h, ref |-> src]

np_array(h, src) == [heap |-> [h EXCEPT !["local"] = h[src]], ref |-> "local"]

(* cost_matrix[cost_matrix < 0] = sys.maxsize *)
sanitise_nonpositive(m) ==
    [i \in DOMAIN m |-> [j \in DOMAIN m[i] |->
        IF m[i][j] <= 0 THEN sys_maxsize ELSE m[i][j]]]

sanitise(m) ==
    [i \in DOMAIN m |-> [j \in DOMAIN m[i] |->
        IF m[i][j] < 0 THEN sys_maxsize ELSE m[i][j]]]

(* the part of compute before the step loop: the fields of the instance s
   after it, given the sanitised local array cm *)
compute_init_stale(s, cm) ==
    LET C == pad_matrix(cm)
        n == num_rows(C)
    IN  [C |-> C, n |-> n,
         original_length |-> num_rows(cm), original_width |-> num_cols(cm),
         row_covered |-> zeros1(n, FALSE), col_covered |-> zeros1(n, FALSE),
         Z0_r |-> 0, Z0_c |-> 0,
         path |-> [k \in Idx(2 * n) |-> <<0, 0>>],
         marked |-> IF s.n = n THEN s.marked ELSE zeros2(n, n)]

compute_init_short_path(s, cm) ==
    LET C == pad_matrix(cm)
        n == num_rows(C)
    IN  [C |-> C, n |-> n,
         original_length |-> num_rows(cm), original_width |-> num_cols(cm),
         row_covered |-> zeros1(n, FALSE), col_covered |-> zeros1(n, FALSE),
         Z0_r |-> 0, Z0_c |-> 0,
         path |-> [k \in Idx(n) |-> <<0, 0>>],
         marked |-> zeros2(n, n)]

compute_init(s, cm) ==
    LET C == pad_matrix(cm)
        n == num_rows(C)
    IN  [C |-> C, n |-> n,
         original_length |-> num_rows(cm), original_width |-> num_cols(cm),
         row_covered |-> zeros1(n, FALSE), col_covered |-> zeros1(n, FALSE),
         Z0_r |-> 0, Z0_c |-> 0,
         path |-> [k \in Idx(2 * n) |-> <<0, 0>>],
         marked |-> zeros2(n, n)]

(* __clear_covers, __erase_primes *)
clear_covers(s) ==
    [s EXCEPT !.row_covered = zeros1(s.n, FALSE), !.col_covered = zeros1(s.n, FALSE)]

erase_primes_skipped(s) == s

erase_primes(s) ==
    [s EXCEPT !.marked = [i \in Idx(s.n) |-> [j \in Idx(s.n) |->
        IF s.marked[i][j] = 2 THEN 0 ELSE s.marked[i][j]]]]

(* __step1 *)
step1_by_first(s) ==
    [self |-> [s EXCEPT !.C = [i \in Idx(s.n) |-> [j \in Idx(s.n) |->
                    fl(s.C[i][j] - s.C[i][0])]]],
     ret |-> 2]

step1(s) ==
    [self |-> [s EXCEPT !.C = [i \in Idx(s.n) |-> [j \in Idx(s.n) |->
                    fl(s.C[i][j] - SetMin({s.C[i][k] : k \in Idx(s.n)}))]]],
     ret |-> 2]

(* __step2: the zeros in row-major order, k = i * n + j *)
RECURSIVE step2_loop_rows_only(_, _)
step2_loop_rows_only(s, k) ==
    IF k >= s.n * s.n THEN s
    ELSE LET i == k \div s.n
             j == k % s.n
         IN  IF s.C[i][j] = 0 /\ ~s.row_covered[i]
             THEN call2(step2_loop_rows_only, [s EXCEPT !.marked[i][j] = 1,
                                                        !.row_covered[i] = TRUE,
                                                        !.col_covered[j] = TRUE], k + 1)
             ELSE call2(step2_loop_rows_only, s, k + 1)

RECURSIVE step2_loop(_, _)
step2_loop(s, k) ==
    IF k >= s.n * s.n THEN s
    ELSE LET i == k \div s.n
             j == k % s.n
         IN  IF s.C[i][j] = 0 /\ ~s.row_covered[i] /\ ~s.col_covered[j]
             THEN call2(step2_loop, [s EXCEPT !.marked[i][j] = 1,
                                              !.row_covered[i] = TRUE,
                                              !.col_covered[j] = TRUE], k + 1)
             ELSE call2(step2_loop, s, k + 1)

step2_covers_kept(s) == [self |-> step2_loop(s, 0), ret |-> 3]

step2(s) == [self |-> clear_covers(step2_loop(s, 0)), ret |-> 3]

(* __step3 *)
step3_one_short(s) ==
    LET covered == [j \in Idx(s.n) |->
                       s.col_covered[j] \/ \E i \in Idx(s.n) : s.marked[i][j] = 1]
        count == Cardinality({j \in Idx(s.n) : covered[j]})
    IN  [self |-> [s EXCEPT !.col_covered = covered],
         ret |-> IF count + 1 >= s.n THEN 7 ELSE 4]

step3(s) ==
    LET covered == [j \in Idx(s.n) |->
                       s.col_covered[j] \/ \E i \in Idx(s.n) : s.marked[i][j] = 1]
        count == Cardinality({j \in Idx(s.n) : covered[j]})
    IN  [self |-> [s EXCEPT !.col_covered = covered],
         ret |-> IF count >= s.n THEN 7 ELSE 4]

(* __find_a_zero: the first uncovered zero in row-major order, or (-1, -1) *)
find_a_zero(s) ==
    LET zs == {i * s.n + j : <<i, j>> \in
                  {z \in Idx(s.n) \X Idx(s.n) :
                      ~s.row_covered[z[1]] /\ ~s.col_covered[z[2]]
                      /\ s.C[z[1]][z[2]] = 0}}
    IN  IF zs # {} THEN <<SetMin(zs) \div s.n, SetMin(zs) % s.n>> ELSE <<-1, -1>>

(* __find_star_in_row, __find_star_in_col, __find_prime_in_row *)
find_star_in_row(s, row) ==
    LET ones == {j \in Idx(s.n) : s.marked[py(row, s.n)][j] = 1}
    IN  IF ones # {} THEN SetMin(ones) ELSE -1

find_star_in_col(s, col) ==
    LET ones == {i \in Idx(s.n) : s.marked[i][py(col, s.n)] = 1}
    IN  IF ones # {} THEN SetMin(ones) ELSE -1

find_prime_in_row(s, row) ==
    LET twos == {j \in Idx(s.n) : s.marked[py(row, s.n)][j] = 2}
    IN  IF twos # {} THEN SetMin(twos) ELSE -1

(* __step4 *)
RECURSIVE step4_no_uncover(_)
step4_no_uncover(s) ==
    LET z == find_a_zero(s)
        row == z[1]
        col == z[2]
    IN  IF row < 0 THEN [self |-> s, ret |-> 6]
        ELSE LET p == [s EXCEPT !.marked[row][col] = 2]
                 star_col == find_star_in_row(p, row)
             IN  IF star_col >= 0
                 THEN call(step4_no_uncover, [p EXCEPT !.row_covered[row] = TRUE])
                 ELSE [self |-> [p EXCEPT !.Z0_r = row, !.Z0_c = col], ret |-> 5]

RECURSIVE step4(_)
step4(s) ==
    LET z == find_a_zero(s)
        row == z[1]
        col == z[2]
    IN  IF row < 0 THEN [self |-> s, ret |-> 6]
        ELSE LET p == [s EXCEPT !.marked[row][col] = 2]
                 star_col == find_star_in_row(p, row)
             IN  IF star_col >= 0
                 THEN call(step4, [p EXCEPT !.row_covered[row] = TRUE,
                                            !.col_covered[star_col] = FALSE])
                 ELSE [self |-> [p EXCEPT !.Z0_r = row, !.Z0_c = col], ret |-> 5]

(* __convert_path: cells path[i..count] toggled one after the other *)
RECURSIVE convert_path_star_all(_, _, _)
convert_path_star_all(s, i, count) ==
    IF i > count THEN s
    ELSE LET x == py(s.path[i][1], s.n)
             y == py(s.path[i][2], s.n)
         IN  call3(convert_path_star_all, [s EXCEPT !.marked[x][y] = 1], i + 1, count)

RECURSIVE convert_path(_, _, _)
convert_path(s, i, count) ==
    IF i > count THEN s
    ELSE LET x == py(s.path[i][1], s.n)
             y == py(s.path[i][2], s.n)
         IN  call3(convert_path, [s EXCEPT !.marked[x][y] =
                                     IF s.marked[x][y] = 1 THEN 0 ELSE 1], i + 1, count)

(* __step5: err is set when a write path[count] falls outside the rows of
   the buffer compute has allocated (IndexError) *)
RECURSIVE step5_loop(_, _)
step5_loop(s, count) ==
    LET row == find_star_in_col(s, s.path[count][2])
    IN  IF row < 0
        THEN [self |-> erase_primes(clear_covers(convert_path(s, 0, count))),
              ret |-> 3, err |-> ""]
        ELSE IF (count + 1) \notin DOMAIN s.path
             THEN [self |-> s, ret |-> 5, err |-> "IndexError"]
             ELSE LET a == [s EXCEPT !.path[count + 1] = <<row, s.path[count][2]>>]
                      col == find_prime_in_row(a, a.path[count + 1][1])
                  IN  IF (count + 2) \notin DOMAIN s.path
                      THEN [self |-> a, ret |-> 5, err |-> "IndexError"]
                      ELSE call2(step5_loop, [a EXCEPT !.path[count + 2] =
                                          <<a.path[count + 1][1], col>>], count + 2)

(* the cells __step5 writes into path, in order: from the last cell the star
   of its column, then the prime __find_prime_in_row returns for that star's
   row (column -1 when there is none), until a column holds no star or the
   buffer of 2n rows is full *)
RECURSIVE step5_path(_, _)
step5_path(s, path) ==
    LET last == path[Len(path)]
        row == find_star_in_col(s, last[2])
    IN  IF row < 0 \/ Len(path) + 2 > 2 * s.n THEN path
        ELSE call2(step5_path, s,
                   path \o << <<row, last[2]>>, <<row, find_prime_in_row(s, row)>> >>)

step5_to_step4(s) ==
    [step5_loop([s EXCEPT !.path[0] = <<s.Z0_r, s.Z0_c>>], 0) EXCEPT !.ret = 4]

step5(s) == step5_loop([s EXCEPT !.path[0] = <<s.Z0_r, s.Z0_c>>], 0)

(* __find_smallest *)
find_smallest_whole(s) ==
    SetMin({s.C[i][j] : <<i, j>> \in Idx(s.n) \X Idx(s.n)})

find_smallest_rows(s) ==
    LET unc == {z \in Idx(s.n) \X Idx(s.n) : ~s.row_covered[z[1]]}
    IN  IF unc # {} THEN SetMin({s.C[z[1]][z[2]] : z \in unc}) ELSE sys_maxsize

find_smallest(s) ==
    LET unc == {z \in Idx(s.n) \X Idx(s.n) :
                   ~s.row_covered[z[1]] /\ ~s.col_covered[z[2]]}
    IN  IF unc # {} THEN SetMin({s.C[z[1]][z[2]] : z \in unc}) ELSE sys_maxsize

(* __step6 *)
step6_cols(s) ==
    LET minval == find_smallest(s)
        added == [i \in Idx(s.n) |-> [j \in Idx(s.n) |->
                     IF s.col_covered[j] THEN fl(s.C[i][j] + minval) ELSE s.C[i][j]]]
    IN  [self |-> [s EXCEPT !.C = [i \in Idx(s.n) |-> [j \in Idx(s.n) |->
                      IF s.col_covered[j] THEN added[i][j]
                      ELSE fl(added[i][j] - minval)]]],
         ret |-> 4]

step6_no_subtract(s) ==
    LET minval == find_smallest(s)
    IN  [self |-> [s EXCEPT !.C = [i \in Idx(s.n) |-> [j \in Idx(s.n) |->
                      IF s.row_covered[i] THEN fl(s.C[i][j] + minval) ELSE s.C[i][j]]]],
         ret |-> 4]

step6(s) ==
    LET minval == find_smallest(s)
        added == [i \in Idx(s.n) |-> [j \in Idx(s.n) |->
                     IF s.row_covered[i] THEN fl(s.C[i][j] + minval) ELSE s.C[i][j]]]
    IN  [self |-> [s EXCEPT !.C = [i \in Idx(s.n) |-> [j \in Idx(s.n) |->
                      IF s.col_covered[j] THEN added[i][j]
                      ELSE fl(added[i][j] - minval)]]],
         ret |-> 4]

(* steps = {1: __step1, ..., 6: __step6}; func = steps[step]; step = func() *)
run_step(s, k) ==
    CASE k = 1 -> step1(s) @@ [err |-> ""]
      [] k = 2 -> step2(s) @@ [err |-> ""]
      [] k = 3 -> step3(s) @@ [err |-> ""]
      [] k = 4 -> step4(s) @@ [err |-> ""]
      [] k = 5 -> step5(s)
      [] k = 6 -> step6(s) @@ [err |-> ""]

(* ones = np.where(marked[:original_length, :original_width] == 1);
   np.array(ones).T: the starred cells of the slice in row-major order *)
RECURSIVE where_ones(_, _, _, _)
where_ones(marked, rows, cols, k) ==
    IF k >= rows * cols THEN <<>>
    ELSE LET i == k \div cols
             j == k % cols
         IN  (IF marked[i][j] = 1 THEN << <<i, j>> >> ELSE <<>>)
             \o where_ones(marked, rows, cols, k + 1)

compute_result_unsliced(s) == where_ones(s.marked, s.n, s.n, 0)

compute_result(s) == where_ones(s.marked, s.original_length, s.original_width, 0)

(* compute, lines 370-385: the caller's array M is copied, the copy is
   sanitised, and every field of the instance is set anew *)
compute_entry(s, h, M) ==
    LET a == np_array([h EXCEPT !["caller"] = M], "caller")
        hs == [a.heap EXCEPT ![a.ref] = sanitise(a.heap[a.ref])]
    IN  [heap |-> hs, ref |-> a.ref, self |-> compute_init(s, hs[a.ref])]

(* while step < 7: func = steps[step]; step = func() *)
RECURSIVE run_steps(_, _)
run_steps(s, k) ==
    IF k >= 7 THEN s
    ELSE LET r == run_step(s, k)
         IN  IF r.err # "" THEN r.self ELSE call2(run_steps, r.self, r.ret)

(* Munkres().compute(M) as a function of M: what it returns and what the
   caller's array holds afterwards *)
fresh_compute(M) ==
    LET e == compute_entry(Munkres_init, [caller |-> None, local |-> None], M)
        f == run_steps(e.self, 1)
    IN  [result |-> compute_result(f), caller |-> e.heap.caller]

----------------------------------------------------------------------------
(* MunkresMatcher._compute, lines 15-25 *)

len(a) == Cardinality(DOMAIN a)

\* np.meshgrid(x, y): two arrays of len(y) rows and len(x) columns
meshgrid_ij(x, y) ==
    << [r \in Idx(len(x)) |-> [c \in Idx(len(y)) |-> x[r]]],
       [r \in Idx(len(x)) |-> [c \in Idx(len(y)) |-> y[c]]] >>

meshgrid(x, y) ==
    << [r \in Idx(len(y)) |-> [c \in Idx(len(x)) |-> x[c]]],
       [r \in Idx(len(y)) |-> [c \in Idx(len(x)) |-> y[r]]] >>

\* np.sqrt on the values the model holds: the integer square root
sqrt(x) == CHOOSE r \in 0 .. x : r * r <= x /\ (r + 1) * (r + 1) > x

\* lines 15-18: delta = TResponse - TTrigger; delta[delta > 0] **= 2
build_delta(trigger, response) ==
    LET g == meshgrid(trigger, response)
        TTrigger == g[1]
        TResponse == g[2]
    IN  [r \in DOMAIN TTrigger |-> [c \in DOMAIN TTrigger[r] |->
            LET d == TResponse[r][c] - TTrigger[r][c]
            IN  IF d > 0 THEN d * d ELSE d]]

\* line 22: idx[:, [0, 1]] = idx[:, [1, 0]]
swap_columns(idx) == [k \in 1 .. Len(idx) |-> <<idx[k][2], idx[k][1]>>]

\* line 24: delta[delta > 0] = np.sqrt(delta[delta > 0])
unsquare_skipped(delta) == delta

unsquare(delta) ==
    [r \in DOMAIN delta |-> [c \in DOMAIN delta[r] |->
        IF delta[r][c] > 0 THEN sqrt(delta[r][c]) ELSE delta[r][c]]]

\* line 25: cost = delta[idx[:, 1], idx[:, 0]]
gather(delta, idx) ==
    [k \in 1 .. Len(idx) |->
        delta[py(idx[k][2], num_rows(delta))][py(idx[k][1], num_cols(delta))]]

\* lines 20-25, given the delta of line 18: m = Munkres(); idx = m.compute(delta)
solve_and_gather(m) ==
    LET c == fresh_compute(m.delta)
        idx == swap_columns(c.result)
        delta == unsquare(c.caller)
    IN  [m EXCEPT !.pc = "gathered", !.delta = delta, !.idx = idx,
                  !.cost = gather(delta, idx)]

----------------------------------------------------------------------------
(* StaticDistribution *)

\* what a list hands out is named by the list it stands in and its position;
\* a list left out at construction is the one-element default [0.5]
supplied(name, n) == [i \in Idx(n) |-> <<name, i>>]

default_list == [i \in Idx(1) |-> <<"0.5", 0>>]

\* StaticDistribution.__init__; an argument is <<>> for None or <<lst>>
Static_init(pdf, cdf, rvs) ==
    [pc |-> "live", pdfIdx |-> 0, cdfIdx |-> 0, rvsIdx |-> 0,
     pdf |-> IF pdf = <<>> THEN default_list ELSE pdf[1],
     cdf |-> IF cdf = <<>> THEN default_list ELSE cdf[1],
     rvs |-> IF rvs = <<>> THEN default_list ELSE rvs[1],
     pdfOut |-> <<>>, cdfOut |-> <<>>, rvsOut |-> <<>>, ret |-> <<>>]

\* StaticDistribution.__get
static_get(idx, lst) ==
    LET i == IF idx >= len(lst) THEN 0 ELSE idx
    IN  <<i + 1, lst[i]>>

\* getPDFValue, getCDFValue: the distribution afterwards; ret is the value
\* returned, pdfOut and cdfOut list what each list has handed out so far
getPDFValue_cdf_cursor(d) ==
    LET g == static_get(d.cdfIdx, d.pdf)
    IN  [d EXCEPT !.cdfIdx = g[1], !.ret = g[2], !.pdfOut = Append(@, g[2])]

getPDFValue(d) ==
    LET g == static_get(d.pdfIdx, d.pdf)
    IN  [d EXCEPT !.pdfIdx = g[1], !.ret = g[2], !.pdfOut = Append(@, g[2])]

getCDFValue(d) ==
    LET g == static_get(d.cdfIdx, d.cdf)
    IN  [d EXCEPT !.cdfIdx = g[1], !.ret = g[2], !.cdfOut = Append(@, g[2])]

\* getRandom: n is <<>> for None or <<k>>; res is the list the loop appends to
RECURSIVE getRandom_loop(_, _, _)
getRandom_loop(d, res, i) ==
    IF i <= 0 THEN [d |-> d, res |-> res]
    ELSE LET g == static_get(d.rvsIdx, d.rvs)
         IN  call3(getRandom_loop,
                   [d EXCEPT !.rvsIdx = g[1], !.rvsOut = Append(@, g[2])],
                   Append(res, g[2]), i - 1)

getRandom(d, n) ==
    LET k == IF n = <<>> THEN 1 ELSE n[1]
        l == getRandom_loop(d, <<>>, k)
    IN  [l.d EXCEPT !.ret = IF k = 1 THEN l.res[1] ELSE l.res]

----------------------------------------------------------------------------
(* core/distribution.py: the distribution classes, asJson and load *)

\* Numbers are counted in units of 0.0000001, the sigma a NormalDistribution
\* falls back to; 0.5 is 5000000 units, 0.005 is 50000 units.
epsilon == 1

half == 5000000

bandwidth == 2000000

threshold == 50000

STATIC == 1

NORMAL == 2

UNIFORM == 3

EXP == 5

KDE == 6

distributions ==
    [k \in {STATIC, NORMAL, UNIFORM, EXP, KDE} |->
        CASE k = STATIC -> "Static" [] k = NORMAL -> "Norm" [] k = UNIFORM -> "Uniform"
          [] k = EXP -> "Expon" [] k = KDE -> "Kde"]

\* Python values a parameter array can hold: a number, a string that spells a
\* number, another string, None, a list of numbers
num(n) == [t |-> "num", v |-> <<n>>]

numstr(n) == [t |-> "numstr", v |-> <<n>>]

text == [t |-> "str", v |-> <<>>]

null == [t |-> "null", v |-> <<>>]

list_of(s) == [t |-> "list", v |-> s]

\* what a kernel's evaluate returns and the cache of a KdeDistribution holds:
\* a Python int or a numpy array
int(n) == [t |-> "int", v |-> <<n>>]

array(s) == [t |-> "array", v |-> s]

\* a tuple (...) and a list [...] of such values
tuple(items) == [seq |-> "tuple", items |-> items]

list(items) == [seq |-> "list", items |-> items]

\* how a call ends: with a value or with an exception
Return(x) == [raised |-> "", value |-> x]

Raise(e) == [raised |-> e, value |-> None]

\* float(x)
float(x) ==
    CASE x.t \in {"num", "numstr"} -> Return(x.v[1])
      [] x.t = "str" -> Raise("ValueError")
      [] OTHER -> Raise("TypeError")

\* Distribution.__init__
Distribution_init(distType, param) ==
    [distType |-> distType, param |-> param, dist |-> None, priv |-> None]

\* scipy's frozen distribution stats.<family>(loc, scale)
stats(family, loc, scale) == [family |-> family, loc |-> loc, scale |-> scale]

\* NormalDistribution.__checkParam on the private fields
Normal_checkParam(priv) ==
    LET sigma == IF priv.sigma = 0 THEN epsilon ELSE priv.sigma
    IN  IF sigma < 0 THEN Raise("ValueError")
        ELSE Return([priv EXCEPT !.sigma = sigma])

\* NormalDistribution.__init__: _dist is built from the argument sigma
NormalDistribution(mu, sigma) ==
    LET o == Distribution_init(NORMAL, tuple(<<num(mu), num(sigma)>>))
        c == Normal_checkParam([mu |-> mu, sigma |-> sigma])
    IN  IF c.raised # "" THEN Raise(c.raised)
        ELSE Return([o EXCEPT !.priv = c.value, !.dist = stats("norm", mu, sigma)])

\* UniformDistribution.__checkParam
Uniform_checkParam_strict(priv) ==
    IF priv.lower > priv.upper THEN Raise("ValueError") ELSE Return(priv)

Uniform_checkParam(priv) ==
    IF priv.lower >= priv.upper THEN Raise("ValueError") ELSE Return(priv)

\* UniformDistribution.__init__
UniformDistribution(lower, upper) ==
    LET o == Distribution_init(UNIFORM, tuple(<<num(lower), num(upper)>>))
        c == Uniform_checkParam([lower |-> lower, upper |-> upper])
    IN  IF c.raised # "" THEN Raise(c.raised)
        ELSE Return([o EXCEPT !.priv = c.value,
                              !.dist = stats("uniform", lower, upper - lower)])

\* ExponentialDistribution.__checkParam
Exponential_checkParam(priv) ==
    IF priv.beta <= 0 THEN Raise("ValueError") ELSE Return(priv)

\* ExponentialDistribution.__init__
ExponentialDistribution(offset, beta) ==
    LET o == Distribution_init(EXP, tuple(<<num(offset), num(beta)>>))
        c == Exponential_checkParam([beta |-> beta, offset |-> offset])
    IN  IF c.raised # "" THEN Raise(c.raised)
        ELSE Return([o EXCEPT !.priv = c.value, !.dist = stats("expon", offset, beta)])

\* sorted(samples), by insertion
RECURSIVE insert(_, _)
insert(s, x) ==
    IF s = <<>> THEN <<x>>
    ELSE IF x <= Head(s) THEN <<x>> \o s
    ELSE <<Head(s)>> \o call2(insert, Tail(s), x)

RECURSIVE sorted(_)
sorted(s) == IF s = <<>> THEN <<>> ELSE insert(call(sorted, Tail(s)), Head(s))

\* np.min, np.max of a sorted or unsorted array
np_min(s) == CHOOSE x \in {s[i] : i \in 1 .. Len(s)} : \A i \in 1 .. Len(s) : x <= s[i]

np_max(s) == CHOOSE x \in {s[i] : i \in 1 .. Len(s)} : \A i \in 1 .. Len(s) : x >= s[i]

\* SingularKernel.__init__
SingularKernel(value) ==
    [type |-> "SingularKernel", value |-> value, maxValue |-> sys_maxsize,
     threshold |-> threshold]

\* stats.gaussian_kde(samples, bandwidth)
gaussian_kde(samples, bw) ==
    [type |-> "gaussian_kde", dataset |-> samples, bw_method |-> bw]

\* KdeDistribution.__init__
KdeDistribution(samples) ==
    LET o == Distribution_init(KDE, list(<<list_of(samples)>>))
    IN  IF Len(samples) = 0 THEN Raise("ValueError")
        ELSE LET s == sorted(samples)
                 lo == np_min(s)
                 hi == np_max(s)
             IN  Return([o EXCEPT !.priv =
                    [samples |-> s,
                     minValue |-> lo - Max2(lo \div 20, half),
                     maxValue |-> hi + Max2(hi \div 20, half),
                     kernel |-> IF lo # hi THEN gaussian_kde(s, bandwidth)
                                ELSE SingularKernel(lo),
                     cachedMaxPdf |-> int(0)]])

\* StaticDistribution.__init__ as a Distribution: its parameter tuple is ()
StaticDistribution(pdf, cdf, rvs) ==
    Return([Distribution_init(STATIC, tuple(<<>>)) EXCEPT
               !.priv = Static_init(pdf, cdf, rvs)])

\* a class object used as a value, e.g. the name UniformDistribution
class(name) == [t |-> "class", name |-> name]

\* the sum of the elements of a sample array
RECURSIVE np_sum(_)
np_sum(s) == IF s = <<>> THEN 0 ELSE Head(s) + call(np_sum, Tail(s))

\* samples.mean()
np_mean(s) == np_sum(s) \div Len(s)

\* samples.std(): the root of the mean squared deviation from the mean
np_std(s) ==
    LET mean == np_mean(s)
    IN  sqrt(np_sum([i \in DOMAIN s |-> (s[i] - mean) * (s[i] - mean)]) \div Len(s))

\* samplesToDistribution(samples, distribution): the second branch compares
\* the argument with the class UniformDistribution, not with UNIFORM
samplesToDistribution(samples, kind) ==
    IF Len(samples) = 0 THEN Raise("ValueError")
    ELSE IF kind = int(NORMAL) THEN NormalDistribution(np_mean(samples), np_std(samples))
    ELSE IF kind = class("UniformDistribution")
        THEN UniformDistribution(np_min(samples), np_max(samples))
    ELSE IF kind = int(EXP)
        THEN ExponentialDistribution(np_min(samples), np_mean(samples) - np_min(samples))
    ELSE IF kind = int(KDE) THEN KdeDistribution(samples)
    ELSE Raise("ValueError")

\* Distribution.asJson: a dict with the keys name and param
asJson(o) ==
    [keys |-> {"name", "param"}, name |-> distributions[o.distType], param |-> o.param]

\* float(param[i]): IndexError past the end of param
float_at(param, i) ==
    IF i >= Len(param.items) THEN Raise("IndexError") ELSE float(param.items[i + 1])

\* C(float(param[0]), float(param[1]))
load_two(C(_, _), param) ==
    LET a == float_at(param, 0)
        b == float_at(param, 1)
    IN  IF a.raised # "" THEN Raise(a.raised)
        ELSE IF b.raised # "" THEN Raise(b.raised)
        ELSE C(a.value, b.value)

\* KdeDistribution(param[0]): len() of a number or of None is a TypeError, and
\* so is numpy's minimum of an array of strings
load_kde(param) ==
    IF Len(param.items) = 0 THEN Raise("IndexError")
    ELSE IF param.items[1].t = "list" THEN KdeDistribution(param.items[1].v)
    ELSE Raise("TypeError")

\* load(value) for a dict value: lines 407-425
load(value) ==
    IF ~({"name", "param"} \subseteq value.keys) THEN Raise("ValueError")
    ELSE LET r == CASE value.name = distributions[NORMAL] ->
                          load_two(NormalDistribution, value.param)
                    [] value.name = distributions[UNIFORM] ->
                          load_two(UniformDistribution, value.param)
                    [] value.name = distributions[EXP] ->
                          load_two(ExponentialDistribution, value.param)
                    [] value.name = distributions[KDE] -> load_kde(value.param)
                    [] OTHER -> Raise("ValueError")
         IN  IF r.raised \in {"IndexError", "ValueError"} THEN Raise("ValueError") ELSE r

\* -self.samples
negated(s) == [i \in 1 .. Len(s) |-> -s[i]]

\* __neg__ of each class; Distribution.__neg__ (Static) returns self
neg(o) ==
    CASE o.distType = NORMAL -> NormalDistribution(-o.priv.mu, o.priv.sigma)
      [] o.distType = UNIFORM -> UniformDistribution(-o.priv.upper, -o.priv.lower)
      [] o.distType = EXP -> ExponentialDistribution(-o.priv.offset, o.priv.beta)
      [] o.distType = KDE -> KdeDistribution(negated(o.priv.samples))
      [] OTHER -> Return(o)

\* Distribution.__eq__ between two distributions
eq(a, b) == a.param = b.param

\* hash() of a number and of a tuple of numbers, within 2^16; a list has no hash
HashMod == 65536

RECURSIVE hash_items(_, _)
hash_items(items, h) ==
    IF items = <<>> THEN h
    ELSE call2(hash_items, Tail(items), (31 * h + Head(items).v[1]) % HashMod)

\* Distribution.__hash__
hash(o) ==
    IF o.param.seq = "list" THEN Raise("TypeError")
    ELSE Return(hash_items(o.param.items, 7))

----------------------------------------------------------------------------
(* KdeDistribution: evaluation and the cached maximum *)

abs(n) == IF n < 0 THEN -n ELSE n

\* SingularKernel.evaluate
Singular_evaluate(k, x) ==
    IF x.t = "array"
    THEN array([i \in 1 .. Len(x.v) |->
                   IF abs(x.v[i] - k.value) < k.threshold THEN k.maxValue ELSE 0])
    ELSE int(IF abs(x.v[1] - k.value) < k.threshold THEN k.maxValue ELSE 0)

\* the density of scipy's gaussian_kde at p: a sum over the samples of a bump
\* that falls with the distance from the sample (scipy's own arithmetic is not
\* part of this repository)
RECURSIVE density(_, _)
density(dataset, p) ==
    IF dataset = <<>> THEN 0
    ELSE (IF abs(p - Head(dataset)) > 31 THEN 0
          ELSE 1000 \div (1 + (p - Head(dataset)) * (p - Head(dataset))))
         + call2(density, Tail(dataset), p)

\* gaussian_kde.evaluate: an array with one density per point, also for a scalar
gaussian_evaluate(k, x) == array([i \in 1 .. Len(x.v) |-> density(k.dataset, x.v[i])])

evaluate(k, x) ==
    IF k.type = "SingularKernel" THEN Singular_evaluate(k, x) ELSE gaussian_evaluate(k, x)

\* KdeDistribution.getPDFValue: the fields afterwards and the value returned
Kde_getPDFValue(o, x) ==
    LET pdf == evaluate(o.kernel, x)
        hit == (pdf.t = "int" \/ Len(pdf.v) = 1) /\ pdf.v[1] > o.cachedMaxPdf.v[1]
    IN  [self |-> IF hit THEN [o EXCEPT !.cachedMaxPdf = pdf] ELSE o,
         ret |-> IF pdf.t = "int" \/ Len(pdf.v) > 1 THEN pdf ELSE int(pdf.v[1])]

\* np.linspace(lo, hi, num) on GridPoints points
linspace(lo, hi) ==
    array([i \in 1 .. GridPoints |-> lo + ((i - 1) * (hi - lo)) \div (GridPoints - 1)])

\* KdeDistribution.getMaximumPDF: the cache is never None, so it is returned
Kde_getMaximumPDF(o) == [self |-> o, ret |-> o.cachedMaxPdf]

\* KdeDistribution.getCDFValue reads the kernel and the interval only
Kde_getCDFValue(o, x) == [self |-> o, ret |-> None]

\* KdeDistribution.getDifferentialEntropy: getPDFValue on a grid
Kde_getDifferentialEntropy(o) ==
    [self |-> Kde_getPDFValue(o, linspace(o.minValue, o.maxValue)).self, ret |-> None]

----------------------------------------------------------------------------
(* core/event.py: Event and load *)

\* Events live in a list objs and refer to each other by position; no_event
\* stands for None
no_event == 0

\* Event.__init__
Event_init_absent(eventType, timestamp) ==
    [eventType |-> eventType, timestamp |-> timestamp, occurred |-> FALSE,
     triggeredBy |-> no_event, triggered |-> no_event, trueTriggered |-> no_event]

Event_init(eventType, timestamp) ==
    [eventType |-> eventType, timestamp |-> timestamp, occurred |-> TRUE,
     triggeredBy |-> no_event, triggered |-> no_event, trueTriggered |-> no_event]

\* Event.setTriggered: objs[me].setTriggered(objs[event])
setTriggered(objs, me, event) ==
    [[objs EXCEPT ![me].triggered = event] EXCEPT ![event].triggeredBy = me]

\* load(value): value is a dict whose entries are <<>> when the key is absent
\* and <<x>> when it is present. The result names the event by its position.
RECURSIVE event_load(_, _)
event_load(objs, value) ==
    IF value.eventType = <<>> THEN [raised |-> "ValueError", objs |-> objs, ref |-> no_event]
    ELSE LET me == Len(objs) + 1
             o1 == Append(objs, Event_init(value.eventType[1], -1))
             f == IF value.timestamp = <<>> THEN Return(-1) ELSE float(value.timestamp[1])
             o2 == [o1 EXCEPT ![me].timestamp = f.value]
             o3 == IF value.occurred = <<>> THEN o2
                   ELSE [o2 EXCEPT ![me].occurred = (value.occurred[1] = "True")]
         IN  IF f.raised # "" THEN [raised |-> f.raised, objs |-> objs, ref |-> no_event]
             ELSE IF value.triggered = <<>> THEN [raised |-> "", objs |-> o3, ref |-> me]
             ELSE LET r == call2(event_load, o3, value.triggered[1])
                  IN  IF r.raised # ""
                      THEN [raised |-> r.raised, objs |-> objs, ref |-> no_event]
                      ELSE [raised |-> "", objs |-> setTriggered(r.objs, me, r.ref),
                            ref |-> me]

\* str(b) of a bool
str(b) == IF b THEN "True" ELSE "False"

\* Event.asJson of objs[me]: a dict in the form load reads; the nested dict of
\* the triggered event has the keys eventType and timestamp only
Event_asJson(objs, me) ==
    LET e == objs[me]
    IN  [eventType |-> <<e.eventType>>,
         occurred |-> <<str(e.occurred)>>,
         timestamp |-> <<numstr(e.timestamp)>>,
         triggered |->
             IF e.triggered = no_event THEN <<>>
             ELSE << [eventType |-> <<objs[e.triggered].eventType>>,
                      timestamp |-> <<numstr(objs[e.triggered].timestamp)>>,
                      occurred |-> <<>>, triggered |-> <<>>] >>]

----------------------------------------------------------------------------
(* core/Timer.py *)

\* The clock of time.perf_counter() counts ticks, Grain of them to a
\* millisecond. int(seconds * 1000) of a span of ticks:
millis(ticks) == ticks \div Grain

\* Timer.__init__
Timer_init == [startTime |-> None, difference |-> None]

\* Timer.start, on a clock that reads now
Timer_start_reset(t, now) == [t EXCEPT !.startTime = <<now>>, !.difference = None]

Timer_start(t, now) == [t EXCEPT !.startTime = <<now>>]

\* Timer.stop: perf_counter() - None is a TypeError
Timer_stop(t, now) ==
    IF t.difference # None THEN [self |-> t, raised |-> ""]
    ELSE IF t.startTime = None THEN [self |-> t, raised |-> "TypeError"]
    ELSE [self |-> [t EXCEPT !.difference = <<millis(now - t.startTime[1])>>],
          raised |-> ""]

\* Timer.millisToStr of an int: minutes, seconds and milliseconds
millisToStr(milliSeconds) ==
    [m |-> (milliSeconds \div 1000) \div 60, s |-> (milliSeconds \div 1000) % 60,
     milli |-> milliSeconds % 1000]

\* Timer.__str__
Timer_str(t, now) ==
    IF t.startTime = None THEN [text |-> "Timer instance"]
    ELSE IF t.difference = None
        THEN [text |-> "Timer started {} ago", time |-> millisToStr(millis(now - t.startTime[1]))]
    ELSE [text |-> "{}", time |-> millisToStr(t.difference[1])]

\* Timer.stopAndLog: logged tells whether logging.warning was called
Timer_stopAndLog(t, abort, now) ==
    IF abort /\ t.difference # None
    THEN [self |-> t, raised |-> "", logged |-> FALSE, value |-> None]
    ELSE LET r == Timer_stop(t, now)
         IN  IF r.raised # ""
             THEN [self |-> r.self, raised |-> r.raised, logged |-> FALSE, value |-> None]
             ELSE [self |-> r.self, raised |-> "", logged |-> abort,
                   value |-> <<Timer_str(r.self, now)>>]

----------------------------------------------------------------------------
(* Inputs *)

\* a matrix written as a tuple of rows, as a 0-based array
arr(t) == [i \in Idx(Len(t)) |-> [j \in Idx(Len(t[1])) |-> t[i + 1][j + 1]]]

test_square1 == arr(<< <<400, 150, 400>>, <<400, 450, 600>>, <<300, 225, 300>> >>)

test_square2 == arr(<< <<10, 10, 8>>, <<9, 8, 1>>, <<9, 7, 4>> >>)

test_rectangular1 ==
    arr(<< <<400, 150, 400, 1>>, <<400, 450, 600, 2>>, <<300, 225, 300, 3>> >>)

test_rectangular2 == arr(<< <<10, 10, 8, 11>>, <<9, 8, 1, 1>>, <<9, 7, 4, 10>> >>)

TestMatrices == {test_square1, test_square2, test_rectangular1, test_rectangular2}

Shapes == {z \in (1 .. MaxDim) \X (1 .. MaxDim) : z[1] * z[2] <= MaxCells}

Costs == {-1} \cup (0 .. MaxCost)

Matrices == UNION {[Idx(z[1]) -> [Idx(z[2]) -> Costs]] : z \in Shapes}

Inputs == Matrices \cup TestMatrices

ReuseInputs ==
    TestMatrices \cup {m \in Matrices : num_rows(m) * num_cols(m) <= ReuseCells}

\* timestamp arrays of 1 .. MaxLen entries
Times == UNION {[Idx(k) -> 0 .. MaxTime] : k \in 1 .. MaxLen}

\* the lists a StaticDistribution is built from, or <<>> for a list left out
ListArgs(name) == {<<>>} \cup {<<supplied(name, k)>> : k \in 1 .. MaxListLen}

\* numbers handed to the constructors, and sample lists of 0 .. MaxSamples numbers
Nums == (-MaxParam) .. MaxParam

SampleLists == UNION {[1 .. k -> Nums] : k \in 0 .. MaxSamples}

\* sample sets on a grid on which the mean of up to MaxSamples values is exact
RECURSIVE factorial(_)
factorial(n) == IF n = 0 THEN 1 ELSE n * factorial(n - 1)

GridSamples == {[i \in DOMAIN s |-> s[i] * factorial(MaxSamples)] : s \in SampleLists}

\* what callers pass as the kind: an integer, or the class UniformDistribution
Kinds == {int(k) : k \in 0 .. KDE} \cup {class("UniformDistribution")}

\* every distribution the constructors produce on these arguments
Constructed ==
    {r.value : r \in {q \in {NormalDistribution(a, b) : a \in Nums, b \in Nums}
                          \cup {UniformDistribution(a, b) : a \in Nums, b \in Nums}
                          \cup {ExponentialDistribution(a, b) : a \in Nums, b \in Nums}
                          \cup {KdeDistribution(s) : s \in SampleLists}
                          \cup {StaticDistribution(a, b, c) : a \in ListArgs("pdf"),
                                    b \in ListArgs("cdf"), c \in ListArgs("rvs")} :
                      q.raised = ""}}

\* parameter arrays of descriptors: up to two scalars, or one list of samples
Scalars == {num(n) : n \in Nums} \cup {numstr(n) : n \in Nums} \cup {text, null}

ParamArrays ==
    {list(<<>>)} \cup {list(<<a>>) : a \in Scalars}
        \cup {list(<<a, b>>) : a \in Scalars, b \in Scalars}
        \cup {list(<<list_of(s)>>) : s \in SampleLists}

\* descriptors: dicts with both keys, and dicts that lack a key
Names == {distributions[k] : k \in DOMAIN distributions} \cup {"Gamma"}

Descriptors ==
    {[keys |-> {"name", "param"}, name |-> n, param |-> q] : n \in Names, q \in ParamArrays}
        \cup {[keys |-> k, name |-> n, param |-> list(<<num(0), num(1)>>)] :
                 k \in {{}, {"name"}, {"param"}}, n \in Names}

\* event records of nesting depth up to d: eventType, timestamp (a string that
\* spells a number), occurred (a string) and triggered, each present or absent
RECURSIVE Records(_)
Records(d) ==
    [eventType : {<<>>, <<"A">>},
     timestamp : {<<>>} \cup {<<numstr(n)>> : n \in 0 .. MaxStamp},
     occurred : {<<>>, <<"True">>, <<"False">>, <<"true">>},
     triggered : IF d = 0 THEN {<<>>} ELSE {<<>>} \cup {<<r>> : r \in Records(d - 1)}]

\* records that carry an eventType and nothing else but nested records
RECURSIVE Chains(_)
Chains(d) ==
    [eventType : {<<"A">>}, timestamp : {<<>>}, occurred : {<<>>},
     triggered : IF d = 0 THEN {<<>>} ELSE {<<>>} \cup {<<r>> : r \in Chains(d - 1)}]

\* number of events a record describes
RECURSIVE depth(_)
depth(value) == IF value.triggered = <<>> THEN 1 ELSE 1 + depth(value.triggered[1])

\* where a density is asked for: points near the samples and one far away,
\* as scalars and as one-element arrays
Points == ((-MaxPoint) .. MaxPoint) \cup {half}

Arguments == {int(q) : q \in Points} \cup {array(<<q>>) : q \in Points}

\* the matrices two concurrent callers hand to compute: up to ConcCells cells
\* with costs from 0 that add up to ConcCost at most
ConcInputs ==
    {m \in UNION {[Idx(z[1]) -> [Idx(z[2]) -> 0 .. ConcCost]] :
                     z \in {y \in (1 .. ConcCells) \X (1 .. ConcCells) :
                               y[1] * y[2] <= ConcCells}} :
        Sum2(m) <= ConcCost}

----------------------------------------------------------------------------
(* The Munkres instance: one compute call at a time *)

MatcherIdle == [pc |-> "idle"]

StaticNone == [pc |-> "none"]

DistributionIdle == [pc |-> "idle"]

NoEvents == [objs |-> <<>>, last |-> "", value |-> <<>>, out |-> <<>>]

KdeNone == [pc |-> "none"]

ThreadsIdle == [pc |-> "idle"]

TimerNone == [pc |-> "none"]

Init ==
    /\ self = Munkres_init
    /\ step = 0
    /\ heap = [caller |-> None, local |-> None]
    /\ cost_matrix = "caller"
    /\ result = <<>>
    /\ raised = ""
    /\ solved = 0
    /\ given = None
    /\ matcher = MatcherIdle
    /\ static = StaticNone
    /\ distribution = DistributionIdle
    /\ events = NoEvents
    /\ kde = KdeNone
    /\ threads = ThreadsIdle
    /\ timer = TimerNone

Call(M) ==
    \E e \in {compute_entry(self, heap, M)} :
        /\ self' = e.self
        /\ heap' = e.heap
        /\ cost_matrix' = e.ref
        /\ step' = 1
        /\ result' = <<>>
        /\ raised' = ""
        /\ given' = M
        /\ UNCHANGED <<solved, matcher, static, distribution, events, kde, threads, timer>>

\* compute on a newly constructed instance
Compute ==
    /\ step = 0 /\ solved = 0 /\ raised = ""
    /\ \E M \in Inputs : Call(M)

\* compute on an instance that has returned from earlier calls
ComputeAgain ==
    /\ step = 7 /\ solved >= 1 /\ solved < MaxCalls
    /\ \E M \in ReuseInputs : Call(M)

\* one pass of the loop body, r being what the step function did; leaving the
\* loop with step = 7 returns the result
Loop(r) ==
    /\ self' = r.self
    /\ raised' = r.err
    /\ step' = IF r.err # "" THEN 0 ELSE r.ret
    /\ result' = IF r.err = "" /\ r.ret = 7 THEN compute_result(r.self) ELSE result
    /\ solved' = IF r.err = "" /\ r.ret = 7 THEN solved + 1 ELSE solved
    /\ UNCHANGED <<heap, cost_matrix, given, matcher, static, distribution, events, kde,
                   threads, timer>>

Step1 ==
    /\ step = 1
    /\ \E r \in {run_step(self, step)} : Loop(r)

Step2 ==
    /\ step = 2
    /\ \E r \in {run_step(self, step)} : Loop(r)

Step3 ==
    /\ step = 3
    /\ \E r \in {run_step(self, step)} : Loop(r)

Step4 ==
    /\ step = 4
    /\ \E r \in {run_step(self, step)} : Loop(r)

Step5 ==
    /\ step = 5
    /\ \E r \in {run_step(self, step)} : Loop(r)

Step6 ==
    /\ step = 6
    /\ \E r \in {run_step(self, step)} : Loop(r)

Steps == Step1 \/ Step2 \/ Step3 \/ Step4 \/ Step5 \/ Step6

\* a new instance solves one matrix
Next == Compute \/ Step1 \/ Step2 \/ Step3 \/ Step4 \/ Step5 \/ Step6

Spec == Init /\ [][Next]_vars

\* a running call keeps executing its loop
FairSpec == Spec /\ WF_vars(Steps)

\* one instance solves one matrix after the other
NextReuse ==
    Compute \/ ComputeAgain \/ Step1 \/ Step2 \/ Step3 \/ Step4 \/ Step5 \/ Step6

SpecReuse == Init /\ [][NextReuse]_vars

----------------------------------------------------------------------------
(* MunkresMatcher._compute on two timestamp arrays *)

\* lines 15-18: the cost matrix is built
BuildDelta ==
    /\ matcher.pc = "idle"
    /\ \E trigger \in Times, response \in Times :
          matcher' = [pc |-> "built", trigger |-> trigger, response |-> response,
                      delta |-> build_delta(trigger, response),
                      idx |-> <<>>, cost |-> <<>>]
    /\ UNCHANGED <<self, step, heap, cost_matrix, result, raised, solved, given, static,
                 distribution, events, kde, threads, timer>>

\* lines 20-25: the matrix is handed to a new solver, the matched costs gathered
SolveAndGather ==
    /\ matcher.pc = "built"
    /\ matcher' = solve_and_gather(matcher)
    /\ UNCHANGED <<self, step, heap, cost_matrix, result, raised, solved, given, static,
                 distribution, events, kde, threads, timer>>

NextMatcher == BuildDelta \/ SolveAndGather

SpecMatcher == Init /\ [][NextMatcher]_vars

----------------------------------------------------------------------------
(* A StaticDistribution and the calls on it *)

StaticNew ==
    /\ static.pc = "none"
    /\ \E pdf \in ListArgs("pdf"), cdf \in ListArgs("cdf"), rvs \in ListArgs("rvs") :
          static' = Static_init(pdf, cdf, rvs)
    /\ UNCHANGED <<self, step, heap, cost_matrix, result, raised, solved, given, matcher,
                 distribution, events, kde, threads, timer>>

GetPDFValue ==
    /\ static.pc = "live" /\ Len(static.pdfOut) < MaxDraws
    /\ static' = getPDFValue(static)
    /\ UNCHANGED <<self, step, heap, cost_matrix, result, raised, solved, given, matcher,
                 distribution, events, kde, threads, timer>>

GetCDFValue ==
    /\ static.pc = "live" /\ Len(static.cdfOut) < MaxDraws
    /\ static' = getCDFValue(static)
    /\ UNCHANGED <<self, step, heap, cost_matrix, result, raised, solved, given, matcher,
                 distribution, events, kde, threads, timer>>

GetRandom ==
    /\ static.pc = "live"
    /\ \E n \in {<<>>} \cup {<<k>> : k \in 0 .. (MaxDraws - Len(static.rvsOut))} :
          /\ Len(static.rvsOut) + (IF n = <<>> THEN 1 ELSE n[1]) <= MaxDraws
          /\ static' = getRandom(static, n)
    /\ UNCHANGED <<self, step, heap, cost_matrix, result, raised, solved, given, matcher,
                 distribution, events, kde, threads, timer>>

NextStatic == StaticNew \/ GetPDFValue \/ GetCDFValue \/ GetRandom

SpecStatic == Init /\ [][NextStatic]_vars

----------------------------------------------------------------------------
(* Calls into core/distribution.py: each is made once, on chosen arguments *)

\* one call: what was called, on what, and how it ended
Called(op, args, out) == [pc |-> "done", op |-> op, args |-> args, out |-> out]

NewNormal ==
    /\ distribution.pc = "idle"
    /\ \E mu \in Nums, sigma \in Nums :
          distribution' = Called("NormalDistribution", <<mu, sigma>>,
                                 NormalDistribution(mu, sigma))
    /\ UNCHANGED <<self, step, heap, cost_matrix, result, raised, solved, given, matcher,
                   static, events, kde, threads, timer>>

NewUniform ==
    /\ distribution.pc = "idle"
    /\ \E lower \in Nums, upper \in Nums :
          distribution' = Called("UniformDistribution", <<lower, upper>>,
                                 UniformDistribution(lower, upper))
    /\ UNCHANGED <<self, step, heap, cost_matrix, result, raised, solved, given, matcher,
                   static, events, kde, threads, timer>>

NewExponential ==
    /\ distribution.pc = "idle"
    /\ \E offset \in Nums, beta \in Nums :
          distribution' = Called("ExponentialDistribution", <<offset, beta>>,
                                 ExponentialDistribution(offset, beta))
    /\ UNCHANGED <<self, step, heap, cost_matrix, result, raised, solved, given, matcher,
                   static, events, kde, threads, timer>>

NewKde ==
    /\ distribution.pc = "idle"
    /\ \E samples \in SampleLists :
          distribution' = Called("KdeDistribution", <<samples>>, KdeDistribution(samples))
    /\ UNCHANGED <<self, step, heap, cost_matrix, result, raised, solved, given, matcher,
                   static, events, kde, threads, timer>>

\* load(d.asJson()) for a distribution d
RoundTrip ==
    /\ distribution.pc = "idle"
    /\ \E d \in Constructed :
          distribution' = Called("load(asJson)", <<d>>, load(asJson(d)))
    /\ UNCHANGED <<self, step, heap, cost_matrix, result, raised, solved, given, matcher,
                   static, events, kde, threads, timer>>

\* load(value) for a descriptor
Load ==
    /\ distribution.pc = "idle"
    /\ \E value \in Descriptors :
          distribution' = Called("load", <<value>>, load(value))
    /\ UNCHANGED <<self, step, heap, cost_matrix, result, raised, solved, given, matcher,
                   static, events, kde, threads, timer>>

\* -d and -(-d) for a Normal, Uniform or Exponential distribution d
neg_neg(d) ==
    LET once == neg(d)
    IN  [once |-> once, twice |-> IF once.raised # "" THEN once ELSE neg(once.value)]

Negate ==
    /\ distribution.pc = "idle"
    /\ \E d \in {c \in Constructed : c.distType \in {NORMAL, UNIFORM, EXP}} :
          distribution' = Called("neg", <<d>>, neg_neg(d))
    /\ UNCHANGED <<self, step, heap, cost_matrix, result, raised, solved, given, matcher,
                   static, events, kde, threads, timer>>

\* a == b, hash(a), hash(b) for two distributions
Compare ==
    /\ distribution.pc = "idle"
    /\ \E all \in {Constructed} : \E a \in all, b \in all :
          distribution' = Called("eq", <<a, b>>,
                                 [eq |-> eq(a, b), hash_a |-> hash(a), hash_b |-> hash(b)])
    /\ UNCHANGED <<self, step, heap, cost_matrix, result, raised, solved, given, matcher,
                   static, events, kde, threads, timer>>

\* samplesToDistribution(samples, kind)
SamplesToDistribution ==
    /\ distribution.pc = "idle"
    /\ \E samples \in GridSamples, kind \in Kinds :
          distribution' = Called("samplesToDistribution", <<samples, kind>>,
                                 samplesToDistribution(samples, kind))
    /\ UNCHANGED <<self, step, heap, cost_matrix, result, raised, solved, given, matcher,
                   static, events, kde, threads, timer>>

NextDistribution ==
    \/ NewNormal \/ NewUniform \/ NewExponential \/ NewKde
    \/ RoundTrip \/ Load \/ Negate \/ Compare \/ SamplesToDistribution

SpecDistribution == Init /\ [][NextDistribution]_vars

----------------------------------------------------------------------------
(* Events: construction, setTriggered, load *)

\* Event() with the default arguments
NewEvent ==
    /\ Len(events.objs) < MaxEvents
    /\ events' = [objs |-> Append(events.objs, Event_init("_", -1)),
                  last |-> "Event", value |-> <<>>, out |-> <<>>]
    /\ UNCHANGED <<self, step, heap, cost_matrix, result, raised, solved, given, matcher,
                   static, distribution, kde, threads, timer>>

\* a.setTriggered(b) for two events that exist
SetTriggered ==
    /\ \E a \in 1 .. Len(events.objs), b \in 1 .. Len(events.objs) :
          events' = [objs |-> setTriggered(events.objs, a, b),
                     last |-> "setTriggered", value |-> <<a, b>>, out |-> <<>>]
    /\ UNCHANGED <<self, step, heap, cost_matrix, result, raised, solved, given, matcher,
                   static, distribution, kde, threads, timer>>

\* load(value): the events it creates join the events that exist
Loaded(value) ==
    LET r == event_load(events.objs, value)
    IN  [objs |-> r.objs, last |-> "load", value |-> <<value>>,
         out |-> <<[raised |-> r.raised, ref |-> r.ref]>>]

\* load of records that nest other records, among other events
LoadChain ==
    /\ \E value \in Chains(MaxNest) :
          /\ Len(events.objs) + depth(value) <= MaxEvents
          /\ events' = [Loaded(value) EXCEPT !.value = <<>>, !.out = <<>>]
    /\ UNCHANGED <<self, step, heap, cost_matrix, result, raised, solved, given, matcher,
                   static, distribution, kde, threads, timer>>

NextEvent == NewEvent \/ SetTriggered \/ LoadChain

SpecEvent == Init /\ [][NextEvent]_vars

\* load of any record, as the first thing that happens
LoadRecord ==
    /\ events.last = ""
    /\ \E value \in Records(MaxNest) : events' = Loaded(value)
    /\ UNCHANGED <<self, step, heap, cost_matrix, result, raised, solved, given, matcher,
                   static, distribution, kde, threads, timer>>

SpecEventLoad == Init /\ [][LoadRecord]_vars

\* load(e.asJson()) for an event e that a load has left behind
StoreAndLoad ==
    /\ events.last = "load"
    /\ events.out[1].raised = ""
    /\ \E e \in 1 .. Len(events.objs) :
          \E r \in {event_load(events.objs, Event_asJson(events.objs, e))} :
              events' = [objs |-> r.objs, last |-> "load(asJson)", value |-> <<e>>,
                         out |-> <<[raised |-> r.raised, ref |-> r.ref]>>]
    /\ UNCHANGED <<self, step, heap, cost_matrix, result, raised, solved, given, matcher,
                   static, distribution, kde, threads, timer>>

NextEventStore == LoadRecord \/ StoreAndLoad

SpecEventStore == Init /\ [][NextEventStore]_vars

----------------------------------------------------------------------------
(* A KdeDistribution and the calls on it *)

\* born keeps the fields as they were after construction, changes counts how
\* often the cached maximum has changed its value
After(r) ==
    [kde EXCEPT !.self = r.self, !.ret = r.ret,
                !.changes = IF r.self.cachedMaxPdf.v[1] # kde.self.cachedMaxPdf.v[1]
                            THEN @ + 1 ELSE @]

KdeNew ==
    /\ kde.pc = "none"
    /\ \E samples \in SampleLists : \E r \in {KdeDistribution(samples)} :
          /\ r.raised = ""
          /\ kde' = [pc |-> "live", self |-> r.value.priv, born |-> r.value.priv,
                     ret |-> None, changes |-> 0]
    /\ UNCHANGED <<self, step, heap, cost_matrix, result, raised, solved, given, matcher,
                   static, distribution, events, threads, timer>>

KdeGetPDFValue ==
    /\ kde.pc = "live"
    /\ \E x \in Arguments : kde' = After(Kde_getPDFValue(kde.self, x))
    /\ UNCHANGED <<self, step, heap, cost_matrix, result, raised, solved, given, matcher,
                   static, distribution, events, threads, timer>>

KdeGetMaximumPDF ==
    /\ kde.pc = "live"
    /\ kde' = After(Kde_getMaximumPDF(kde.self))
    /\ UNCHANGED <<self, step, heap, cost_matrix, result, raised, solved, given, matcher,
                   static, distribution, events, threads, timer>>

KdeGetCDFValue ==
    /\ kde.pc = "live"
    /\ \E x \in Arguments : kde' = After(Kde_getCDFValue(kde.self, x))
    /\ UNCHANGED <<self, step, heap, cost_matrix, result, raised, solved, given, matcher,
                   static, distribution, events, threads, timer>>

KdeGetDifferentialEntropy ==
    /\ kde.pc = "live"
    /\ kde' = After(Kde_getDifferentialEntropy(kde.self))
    /\ UNCHANGED <<self, step, heap, cost_matrix, result, raised, solved, given, matcher,
                   static, distribution, events, threads, timer>>

NextKde ==
    \/ KdeNew \/ KdeGetPDFValue \/ KdeGetMaximumPDF \/ KdeGetCDFValue
    \/ KdeGetDifferentialEntropy

SpecKde == Init /\ [][NextKde]_vars

----------------------------------------------------------------------------
(* Two threads, each calling compute once, on one Munkres instance or on two *)

\* a thread's call: step is the local variable of compute (0 before the call,
\* 7 once the loop is left, 8 after return, 9 after an exception), given its
\* argument, result what it returned
NoCall == [step |-> 0, given |-> None, result |-> <<>>, raised |-> ""]

in_progress(c) == c.step \in 1 .. 7

\* the object whose fields thread i's call works on: __init__ makes C, marked,
\* the covers, path and Z0 fields of the instance, so two instances share nothing
receiver_of_class(shared, i) == 1

receiver(shared, i) == IF shared THEN 1 ELSE i

\* both threads are handed the same instance, or one instance each
ThreadsStart ==
    /\ threads.pc = "idle"
    /\ \E shared \in BOOLEAN :
          threads' = [pc |-> "run", shared |-> shared,
                      obj |-> <<Munkres_init, Munkres_init>>,
                      call |-> <<NoCall, NoCall>>, overlap |-> FALSE]
    /\ UNCHANGED <<self, step, heap, cost_matrix, result, raised, solved, given, matcher,
                   static, distribution, events, kde, timer>>

\* lines 370-386 of thread i's call: the fields of its receiver are set anew;
\* overlap records that the other call was under way at that moment
ThreadEnter ==
    /\ threads.pc = "run"
    /\ \E i \in 1 .. 2 :
          /\ threads.call[i].step = 0
          /\ \E M \in ConcInputs, k \in {receiver(threads.shared, i)} :
             \E e \in {compute_entry(threads.obj[k], [caller |-> None, local |-> None], M)} :
                threads' = [threads EXCEPT
                               !.obj[k] = e.self,
                               !.call[i] = [NoCall EXCEPT !.step = 1, !.given = M],
                               !.overlap = @ \/ in_progress(threads.call[3 - i])]
    /\ UNCHANGED <<self, step, heap, cost_matrix, result, raised, solved, given, matcher,
                   static, distribution, events, kde, timer>>

\* the entries of C stay within ConcGrowth times sys.maxsize
within(s) ==
    \A z \in Idx(s.n) \X Idx(s.n) : s.C[z[1]][z[2]] <= ConcGrowth * sys_maxsize

\* one pass of the loop body of thread i's call: step = steps[step](). A call
\* whose step 6 keeps adding sys.maxsize to C (no cell is uncovered and the loop
\* does not end) is followed while the entries are within ConcGrowth times
\* sys.maxsize
ThreadStep ==
    /\ threads.pc = "run"
    /\ \E i \in 1 .. 2 :
          /\ threads.call[i].step \in 1 .. 6
          /\ \E k \in {receiver(threads.shared, i)} :
             \E r \in {run_step(threads.obj[k], threads.call[i].step)} :
                /\ within(r.self)
                /\ threads' = [threads EXCEPT
                                  !.obj[k] = r.self,
                                  !.call[i].step = IF r.err # "" THEN 9 ELSE r.ret,
                                  !.call[i].raised = r.err]
    /\ UNCHANGED <<self, step, heap, cost_matrix, result, raised, solved, given, matcher,
                   static, distribution, events, kde, timer>>

\* lines 401-402 of thread i's call: the stars of its receiver are returned
ThreadReturn ==
    /\ threads.pc = "run"
    /\ \E i \in 1 .. 2 :
          /\ threads.call[i].step = 7
          /\ \E k \in {receiver(threads.shared, i)} :
                threads' = [threads EXCEPT
                               !.call[i].step = 8,
                               !.call[i].result = compute_result(threads.obj[k])]
    /\ UNCHANGED <<self, step, heap, cost_matrix, result, raised, solved, given, matcher,
                   static, distribution, events, kde, timer>>

NextConcurrent == ThreadsStart \/ ThreadEnter \/ ThreadStep \/ ThreadReturn

SpecConcurrent == Init /\ [][NextConcurrent]_vars

----------------------------------------------------------------------------
(* A Timer, its calls, and the handlers that run when the interpreter exits *)

\* what a call of the timer leaves behind
Timed(op, abort, r, now, registered) ==
    [timer EXCEPT !.self = r.self, !.clock = now, !.atexit = registered,
                  !.warnings = IF r.logged THEN @ + 1 ELSE @,
                  !.last = [op |-> op, abort |-> abort],
                  !.ret = [raised |-> r.raised, value |-> r.value]]

TimerNew ==
    /\ timer.pc = "none"
    /\ \E now \in 0 .. MaxClock :
          timer' = [pc |-> "live", self |-> Timer_init, clock |-> now, atexit |-> 0,
                    warnings |-> 0, last |-> [op |-> "Timer", abort |-> FALSE],
                    ret |-> [raised |-> "", value |-> None]]
    /\ UNCHANGED <<self, step, heap, cost_matrix, result, raised, solved, given, matcher,
                   static, distribution, events, kde, threads>>

\* start(): reads the clock and registers stopAndLog(abort=True) for the exit
TimerStart ==
    /\ timer.pc = "live"
    /\ timer.atexit < MaxStarts
    /\ \E now \in timer.clock .. MaxClock :
          timer' = Timed("start", FALSE,
                         [self |-> Timer_start(timer.self, now), raised |-> "",
                          logged |-> FALSE, value |-> None],
                         now, timer.atexit + 1)
    /\ UNCHANGED <<self, step, heap, cost_matrix, result, raised, solved, given, matcher,
                   static, distribution, events, kde, threads>>

TimerStop ==
    /\ timer.pc = "live"
    /\ \E now \in timer.clock .. MaxClock : \E r \in {Timer_stop(timer.self, now)} :
          timer' = Timed("stop", FALSE,
                         [self |-> r.self, raised |-> r.raised, logged |-> FALSE,
                          value |-> None],
                         now, timer.atexit)
    /\ UNCHANGED <<self, step, heap, cost_matrix, result, raised, solved, given, matcher,
                   static, distribution, events, kde, threads>>

TimerStopAndLog ==
    /\ timer.pc = "live"
    /\ \E abort \in BOOLEAN, now \in timer.clock .. MaxClock :
          timer' = Timed("stopAndLog", abort, Timer_stopAndLog(timer.self, abort, now),
                         now, timer.atexit)
    /\ UNCHANGED <<self, step, heap, cost_matrix, result, raised, solved, given, matcher,
                   static, distribution, events, kde, threads>>

\* the interpreter exits: each registered handler calls stopAndLog(abort=True)
TimerAtExit ==
    /\ timer.pc \in {"live", "exiting"}
    /\ timer.atexit > 0
    /\ \E now \in timer.clock .. MaxClock :
          timer' = [Timed("stopAndLog", TRUE, Timer_stopAndLog(timer.self, TRUE, now),
                          now, timer.atexit - 1) EXCEPT !.pc = "exiting"]
    /\ UNCHANGED <<self, step, heap, cost_matrix, result, raised, solved, given, matcher,
                   static, distribution, events, kde, threads>>

NextTimer == TimerNew \/ TimerStart \/ TimerStop \/ TimerStopAndLog \/ TimerAtExit

SpecTimer == Init /\ [][NextTimer]_vars

----------------------------------------------------------------------------
(* Properties of Munkres.compute *)

RECURSIVE SumTo(_, _)
SumTo(f, k) == IF k = 0 THEN 0 ELSE f[k - 1] + SumTo(f, k - 1)

\* the sum of the entries of M at the index pairs of the sequence pairs
TotalCost(pairs, M) ==
    SumTo([k \in Idx(Len(pairs)) |-> M[pairs[k + 1][1]][pairs[k + 1][2]]], Len(pairs))

Injective(f) == \A a, b \in DOMAIN f : f[a] = f[b] => a = b

\* the total costs of all one-to-one matchings of min(p, q) rows and columns of M
MatchingCosts(M) ==
    LET p == num_rows(M)
        q == num_cols(M)
    IN  IF p <= q
        THEN {SumTo([i \in Idx(p) |-> M[i][f[i]]], p) :
                 f \in {g \in [Idx(p) -> Idx(q)] : Injective(g)}}
        ELSE {SumTo([j \in Idx(q) |-> M[f[j]][j]], q) :
                 f \in {g \in [Idx(q) -> Idx(p)] : Injective(g)}}

NonNegative(M) == \A i \in DOMAIN M : \A j \in DOMAIN M[i] : M[i][j] >= 0

\* pairs is a one-to-one matching of min(p, q) cells of M
IsMatching(pairs, M) ==
    /\ Len(pairs) = Min2(num_rows(M), num_cols(M))
    /\ \A k \in 1 .. Len(pairs) :
          pairs[k][1] \in Idx(num_rows(M)) /\ pairs[k][2] \in Idx(num_cols(M))
    /\ \A k, l \in 1 .. Len(pairs) :
          k # l => pairs[k][1] # pairs[l][1] /\ pairs[k][2] # pairs[l][2]

Stars(s) == {z \in Idx(s.n) \X Idx(s.n) : s.marked[z[1]][z[2]] = 1}

Primes(s) == {z \in Idx(s.n) \X Idx(s.n) : s.marked[z[1]][z[2]] = 2}

C2_Rectangular ==
    (step = 7 /\ num_rows(given) # num_cols(given)) =>
        /\ Len(result) = Min2(num_rows(given), num_cols(given))
        /\ \A k \in 1 .. Len(result) :
              /\ 0 <= result[k][1] /\ result[k][1] < num_rows(given)
              /\ 0 <= result[k][2] /\ result[k][2] < num_cols(given)

\* a call on a rectangular matrix has returned with a star on a padding cell
C2_Witness ==
    /\ step = 7 /\ num_rows(given) # num_cols(given)
    /\ \E z \in Stars(self) : z[1] >= num_rows(given) \/ z[2] >= num_cols(given)

\* C3: in every state of compute each row and each column of the mark matrix
\* holds at most one starred zero, and the pairs returned repeat no row index
\* and no column index
C3_OneStarPerLine ==
    /\ \A a, b \in Stars(self) : (a[1] = b[1] \/ a[2] = b[2]) => a = b
    /\ step = 7 =>
          \A k, l \in 1 .. Len(result) :
              k # l => result[k][1] # result[l][1] /\ result[k][2] # result[l][2]

\* step 5 has converted a path with a starred zero on it, in a matrix with
\* three stars
C3_Witness ==
    /\ step = 3 /\ self.n = 3 /\ Cardinality(Stars(self)) = 3
    /\ self.path[1] # <<0, 0>>

\* C4: every compute call that has entered the step loop reaches the success
\* exit of step 3
C4_Terminates == (step \in 1 .. 6) ~> (step = 7)

\* a call is in step 6 for the second time: the matrix is no longer the row
\* reduced one
C4_Witness ==
    /\ step = 6
    /\ self.C # step1(compute_init(self, heap[cost_matrix])).self.C

\* C5: when compute has returned, the caller's matrix has the shape and the
\* entries it had before the call
C5_CallerUnchanged == step = 7 => heap.caller = given

\* a call on a matrix with a negative entry, which the copy replaced, has returned
C5_Witness ==
    /\ step = 7 /\ ~NonNegative(given)
    /\ heap[cost_matrix] # given

\* C6: negative entries raise no error, and at the start of step 1 the working
\* matrix is n x n, n = max(p, q): inside the p x q rectangle the input value,
\* or the sentinel where the input is negative, and 0 outside it
C6_Sanitised ==
    /\ raised = ""
    /\ step = 1 =>
          LET p == num_rows(given)
              q == num_cols(given)
              n == Max2(p, q)
          IN  /\ self.n = n
              /\ DOMAIN self.C = Idx(n)
              /\ \A i \in Idx(n) :
                    /\ DOMAIN self.C[i] = Idx(n)
                    /\ \A j \in Idx(n) :
                          self.C[i][j] =
                              IF i < p /\ j < q
                              THEN (IF given[i][j] >= 0 THEN given[i][j]
                                    ELSE sys_maxsize)
                              ELSE 0

\* step 1 is about to start on a rectangular matrix with negative, zero and
\* positive entries
C6_Witness ==
    /\ step = 1 /\ num_rows(given) # num_cols(given)
    /\ \E i \in DOMAIN given : \E j \in DOMAIN given[i] : given[i][j] < 0
    /\ \E i \in DOMAIN given : \E j \in DOMAIN given[i] : given[i][j] = 0
    /\ \E i \in DOMAIN given : \E j \in DOMAIN given[i] : given[i][j] > 0

\* C7: what compute returns for a matrix on an instance that has solved other
\* matrices before is what a new instance returns for it
C7_SameAsFresh ==
    step = 7 =>
        /\ result = fresh_compute(given).result
        /\ TotalCost(result, given) = TotalCost(fresh_compute(given).result, given)

\* the second call on one instance has returned, on a matrix as large as the
\* working matrix the first call left behind
C7_Witness == step = 7 /\ solved = 2 /\ self.n = 3

----------------------------------------------------------------------------
(* Properties of MunkresMatcher._compute *)

\* the entry built for a lag: the lag itself when <= 0, its square when > 0
Squared(d) == IF d > 0 THEN d * d ELSE d

\* C8 as stated: the matrix handed to the solver has one row per trigger and
\* one column per response, entry [i][j] = Squared(response[j] - trigger[i]).
C8_TriggerRows ==
    matcher.pc = "built" =>
        LET tr == matcher.trigger
            re == matcher.response
            d == matcher.delta
        IN  /\ DOMAIN d = Idx(len(tr))
            /\ \A i \in DOMAIN d :
                  /\ DOMAIN d[i] = Idx(len(re))
                  /\ \A j \in DOMAIN d[i] : d[i][j] = Squared(re[j] - tr[i])

\* C8: for trigger of length p and response of length q, the matrix handed to
\* the solver is q x p, one row per response and one column per trigger, with
\* entry [j][i] = response[j] - trigger[i] when that difference is <= 0 and
\* its square when it is > 0.
C8_ResponseRows ==
    matcher.pc = "built" =>
        LET tr == matcher.trigger
            re == matcher.response
            d == matcher.delta
        IN  /\ DOMAIN d = Idx(len(re))
            /\ \A j \in DOMAIN d :
                  /\ DOMAIN d[j] = Idx(len(tr))
                  /\ \A i \in DOMAIN d[j] : d[j][i] = Squared(re[j] - tr[i])

C8_Witness ==
    /\ matcher.pc = "built"
    /\ len(matcher.trigger) = 2 /\ len(matcher.response) = 1
    /\ matcher.delta[0][0] > 1 /\ matcher.delta[0][1] < 0

\* C9: every pair (t, r) of the index array after the column swap has t a
\* valid index into trigger and r a valid index into response, and the cost
\* gathered for the pair is the lag response[r] - trigger[t].
C9_LagRecovered ==
    matcher.pc = "gathered" =>
        /\ Len(matcher.cost) = Len(matcher.idx)
        /\ \A k \in 1 .. Len(matcher.idx) :
              LET t == matcher.idx[k][1]
                  r == matcher.idx[k][2]
              IN  /\ t \in Idx(len(matcher.trigger))
                  /\ r \in Idx(len(matcher.response))
                  /\ matcher.cost[k] = matcher.response[r] - matcher.trigger[t]

C9_Witness ==
    /\ matcher.pc = "gathered"
    /\ Len(matcher.idx) = 2
    /\ \E k \in 1 .. 2 : matcher.cost[k] > 1
    /\ \E k \in 1 .. 2 : matcher.cost[k] < 0

----------------------------------------------------------------------------
(* Properties of StaticDistribution *)

\* the k-th value a list has handed out is lst[(k - 1) mod len(lst)]
Cyclic(lst, out) ==
    \A k \in 1 .. Len(out) : out[k] = lst[(k - 1) % len(lst)]

\* the cursor of a list is moved by the draws from that list and nothing else
CursorOf(idx, lst, out) ==
    idx = IF Len(out) = 0 THEN 0 ELSE ((Len(out) - 1) % len(lst)) + 1

\* C10: over any interleaving of getPDFValue, getCDFValue and getRandom, the
\* k-th value drawn from the pdf list is pdf[(k-1) mod len(pdf)], likewise for
\* the cdf and the rvs list, and each cursor follows the draws of its own list.
C10_CyclicIndependent ==
    static.pc = "live" =>
        /\ Cyclic(static.pdf, static.pdfOut)
        /\ Cyclic(static.cdf, static.cdfOut)
        /\ Cyclic(static.rvs, static.rvsOut)
        /\ CursorOf(static.pdfIdx, static.pdf, static.pdfOut)
        /\ CursorOf(static.cdfIdx, static.cdf, static.cdfOut)
        /\ CursorOf(static.rvsIdx, static.rvs, static.rvsOut)

C10_Witness ==
    /\ static.pc = "live"
    /\ len(static.pdf) = 2 /\ Len(static.pdfOut) = 3
    /\ len(static.cdf) = 1 /\ Len(static.cdfOut) = 2
    /\ len(static.rvs) = 2 /\ static.ret = <<static.rvs[0], static.rvs[1], static.rvs[0]>>

----------------------------------------------------------------------------
(* Properties of the distribution constructors *)

IsCall(op) == distribution.pc = "done" /\ distribution.op = op

\* C11: NormalDistribution(mu, sigma) fails exactly when sigma < 0; for
\* sigma = 0 it succeeds and the sigma of the constructed distribution, in its
\* private field (used by the entropy) and in its density object, is epsilon.
C11_SigmaClamped ==
    IsCall("NormalDistribution") =>
        LET sigma == distribution.args[2]
            out == distribution.out
        IN  /\ (out.raised # "") = (sigma < 0)
            /\ sigma = 0 =>
                  /\ out.value.priv.sigma = epsilon
                  /\ out.value.dist.scale = epsilon

\* C12: UniformDistribution raises ValueError exactly when lower >= upper,
\* ExponentialDistribution exactly when beta <= 0, KdeDistribution exactly when
\* samples is empty; what is raised is a ValueError and no object is produced,
\* and a distribution that is produced holds the arguments as they were given.
C12_RejectedNotClamped ==
    /\ IsCall("UniformDistribution") =>
          LET lower == distribution.args[1]
              upper == distribution.args[2]
              out == distribution.out
          IN  /\ (out.raised = "ValueError") = (lower >= upper)
              /\ out.raised \in {"", "ValueError"}
              /\ out.raised # "" => out.value = None
              /\ out.raised = "" =>
                    /\ out.value.priv = [lower |-> lower, upper |-> upper]
                    /\ out.value.dist = stats("uniform", lower, upper - lower)
    /\ IsCall("ExponentialDistribution") =>
          LET offset == distribution.args[1]
              beta == distribution.args[2]
              out == distribution.out
          IN  /\ (out.raised = "ValueError") = (beta <= 0)
              /\ out.raised \in {"", "ValueError"}
              /\ out.raised # "" => out.value = None
              /\ out.raised = "" =>
                    /\ out.value.priv = [beta |-> beta, offset |-> offset]
                    /\ out.value.dist = stats("expon", offset, beta)
    /\ IsCall("KdeDistribution") =>
          LET samples == distribution.args[1]
              out == distribution.out
          IN  /\ (out.raised = "ValueError") = (Len(samples) = 0)
              /\ out.raised \in {"", "ValueError"}
              /\ out.raised # "" => out.value = None
              /\ out.raised = "" => out.value.param = list(<<list_of(samples)>>)

C12_Witness ==
    /\ IsCall("UniformDistribution")
    /\ distribution.args[1] = distribution.args[2]
    /\ distribution.out.raised = "ValueError"

\* C13: for every distribution d of every class, load(d.asJson()) succeeds
\* and returns a distribution of the same kind with the same parameters (for a
\* KdeDistribution: the same samples).
C13_RoundTrip ==
    IsCall("load(asJson)") =>
        LET d == distribution.args[1]
            out == distribution.out
        IN  /\ out.raised = ""
            /\ out.value.distType = d.distType
            /\ out.value.param = d.param
            /\ d.distType = KDE => out.value.priv.samples = d.priv.samples

\* the descriptors C14 speaks of
Unknown(value) == \A k \in {NORMAL, UNIFORM, EXP, KDE} : value.name # distributions[k]

Numeric(x) == x.t \in {"num", "numstr"}

TooShort(value) ==
    Len(value.param.items) < (IF value.name = distributions[KDE] THEN 1 ELSE 2)

NonNumeric(value) ==
    IF value.name = distributions[KDE] THEN value.param.items[1].t # "list"
    ELSE ~Numeric(value.param.items[1]) \/ ~Numeric(value.param.items[2])

InvalidForKind(value) ==
    LET a == value.param.items[1].v
        b == value.param.items[2].v[1]
    IN  CASE value.name = distributions[NORMAL] -> b < 0
          [] value.name = distributions[UNIFORM] -> a[1] >= b
          [] value.name = distributions[EXP] -> b <= 0
          [] OTHER -> Len(a) = 0

Malformed(value) ==
    \/ ~({"name", "param"} \subseteq value.keys)
    \/ Unknown(value)
    \/ TooShort(value)
    \/ NonNumeric(value)
    \/ InvalidForKind(value)

\* C14: load fails with a ValueError, and returns no distribution, for every
\* descriptor that lacks a key, names an unknown distribution, or carries a
\* param array that is too short, non-numeric or invalid for the named kind.
C14_MalformedIsValueError ==
    (IsCall("load") /\ Malformed(distribution.args[1])) =>
        /\ distribution.out.raised = "ValueError"
        /\ distribution.out.value = None

\* C15: for every valid Normal, Uniform and Exponential distribution d,
\* negating twice never fails, -d has the mirrored parameters and -(-d) has
\* the parameter tuple of d.
C15_NegInvolution ==
    IsCall("neg") =>
        LET d == distribution.args[1]
            a == d.param.items[1].v[1]
            b == d.param.items[2].v[1]
            once == distribution.out.once
            twice == distribution.out.twice
        IN  /\ once.raised = "" /\ twice.raised = ""
            /\ once.value.distType = d.distType
            /\ once.value.param =
                  IF d.distType = UNIFORM THEN tuple(<<num(-b), num(-a)>>)
                  ELSE tuple(<<num(-a), num(b)>>)
            /\ twice.value.distType = d.distType
            /\ twice.value.param = d.param

\* C16: two distributions compare equal exactly when their parameter tuples
\* (for a KdeDistribution: their samples) are equal, hash() is defined for
\* every distribution, and equal distributions have equal hashes.
C16_EqHash ==
    IsCall("eq") =>
        LET a == distribution.args[1]
            b == distribution.args[2]
            out == distribution.out
        IN  /\ out.eq = (a.param.items = b.param.items)
            /\ out.hash_a.raised = "" /\ out.hash_b.raised = ""
            /\ out.eq => out.hash_a.value = out.hash_b.value

----------------------------------------------------------------------------
(* Properties of Event *)

\* C17: after any sequence of setTriggered calls and loads, for all events a
\* and b, a.triggered is b if and only if b.triggeredBy is a.
C17_LinksSymmetric ==
    \A a \in 1 .. Len(events.objs), b \in 1 .. Len(events.objs) :
        (events.objs[a].triggered = b) = (events.objs[b].triggeredBy = a)

\* a record, or a record nested in it, has no eventType
RECURSIVE Missing(_)
Missing(value) ==
    \/ value.eventType = <<>>
    \/ value.triggered # <<>> /\ Missing(value.triggered[1])

\* the event at ref is what the record describes: absent optional fields are
\* timestamp -1 and occurred true, occurred is true exactly for "True"
RECURSIVE Describes(_, _, _)
Describes(objs, ref, value) ==
    /\ ref \in 1 .. Len(objs)
    /\ objs[ref].eventType = value.eventType[1]
    /\ objs[ref].timestamp = IF value.timestamp = <<>> THEN -1 ELSE value.timestamp[1].v[1]
    /\ objs[ref].occurred = IF value.occurred = <<>> THEN TRUE ELSE value.occurred[1] = "True"
    /\ IF value.triggered = <<>> THEN objs[ref].triggered = no_event
       ELSE /\ objs[ref].triggered # no_event
            /\ objs[objs[ref].triggered].triggeredBy = ref
            /\ Describes(objs, objs[ref].triggered, value.triggered[1])

\* C18: load raises ValueError when the record or a nested record has no
\* eventType, and otherwise returns an event with the fields of the record,
\* timestamp -1 and occurred true where absent, occurred true exactly for the
\* string True.
C18_LoadDefaults ==
    events.last = "load" =>
        LET value == events.value[1]
            out == events.out[1]
        IN  IF Missing(value)
            THEN out.raised = "ValueError" /\ events.objs = <<>>
            ELSE out.raised = "" /\ Describes(events.objs, out.ref, value)

C18_Witness ==
    /\ events.last = "load"
    /\ events.out[1].raised = ""
    /\ events.value[1].timestamp = <<>> /\ events.value[1].occurred = <<"true">>
    /\ events.value[1].triggered # <<>>
    /\ events.value[1].triggered[1].occurred = <<>>
    /\ events.objs[2].occurred /\ ~events.objs[1].occurred

----------------------------------------------------------------------------
(* Properties of KdeDistribution *)

\* C19: over any sequence of getPDFValue, getMaximumPDF, getCDFValue and
\* getDifferentialEntropy calls the cached maximum changes its value at most
\* once after construction, and no other field changes.
C19_CacheWrittenOnce ==
    kde.pc = "live" =>
        /\ kde.changes <= 1
        /\ [kde.self EXCEPT !.cachedMaxPdf = int(0)] = kde.born

----------------------------------------------------------------------------
(* Properties of concurrent calls of Munkres.compute *)

\* the pairs call c returned are a minimum-cost matching of its own matrix
Correct(c) ==
    /\ IsMatching(c.result, c.given)
    /\ \A cost \in MatchingCosts(c.given) : TotalCost(c.result, c.given) <= cost

\* C20: two compute calls on separate instances, and two calls on one instance
\* of which the second starts after the first has returned, never fail and each
\* return a minimum-cost matching of its own matrix; two calls on one instance
\* that interleave between steps can return pairs that are not such a matching
\* (the state C20_Witness describes). Without interleaving the entries of C
\* stay below sys.maxsize, so no such call is cut short by the cap on growth.
C20_SafeUnlessInterleaved ==
    (threads.pc = "run" /\ (~threads.shared \/ ~threads.overlap)) =>
        \A i \in 1 .. 2 :
            /\ threads.call[i].step # 9
            /\ threads.call[i].step = 8 => Correct(threads.call[i])
            /\ in_progress(threads.call[i]) =>
                  LET s == threads.obj[receiver(threads.shared, i)]
                  IN  \A z \in Idx(s.n) \X Idx(s.n) : s.C[z[1]][z[2]] < sys_maxsize

\* on one instance, a call that started while the other was under way has
\* returned pairs that are not a minimum-cost matching of its own matrix
C20_Witness ==
    /\ threads.pc = "run" /\ threads.shared /\ threads.overlap
    /\ \E i \in 1 .. 2 : threads.call[i].step = 8 /\ ~Correct(threads.call[i])

----------------------------------------------------------------------------
(* Properties of the steps of Munkres.compute *)

\* the matrix of step 2: the sanitised, padded copy of the argument after the
\* row reduction of step 1
Reduced == step1(compute_init(self, heap[cost_matrix])).self.C

\* C21: a call starts with steps 1, 2, 3 in that order; afterwards step 3 is
\* left for DONE (7) or step 4, step 4 for step 5 or step 6, step 5 for step 3
\* and step 6 for step 4; steps 1 and 2 are entered once, from the start of
\* the call and from step 1, and DONE is entered from step 3 only.
C21_StepOrder ==
    [][/\ step = 0 => step' = 1
       /\ step = 1 => step' = 2
       /\ step = 2 => step' = 3
       /\ step = 3 => step' \in {4, 7}
       /\ step = 4 => step' \in {5, 6}
       /\ step = 5 => step' = 3
       /\ step = 6 => step' = 4
       /\ step' = 1 => step = 0
       /\ step' = 2 => step = 1
       /\ step' = 7 => step = 3]_vars

\* the loop is back at step 4 after a step 6 (the matrix is no longer the row
\* reduced one) and after a step 5 (the path buffer has been written)
C21_Witness ==
    /\ step = 4 /\ self.C # Reduced
    /\ \E k \in DOMAIN self.path : self.path[k] # <<0, 0>>

\* the cells of an n x n matrix, and the place of a cell in the row-major scan
Cells(s) == Idx(s.n) \X Idx(s.n)

Zeros(s) == {z \in Cells(s) : s.C[z[1]][z[2]] = 0}

scan(s, z) == z[1] * s.n + z[2]

NoCovers(s) == \A i \in Idx(s.n) : ~s.row_covered[i] /\ ~s.col_covered[i]

\* the instance as step 2 leaves it in this call
AfterStep2 == step2(step1(compute_init(self, heap[cost_matrix])).self).self

\* C22: when step 2 returns, a cell is starred exactly when it is a zero and no
\* starred cell scanned before it (row-major) shares its row or its column; so
\* every zero has a star in its row or in its column; no cell is primed and no
\* row and no column is covered.
C22_GreedyStars ==
    [][step = 2 =>
          /\ \A z \in Cells(self') :
                z \in Stars(self') <=>
                    /\ z \in Zeros(self')
                    /\ ~\E w \in Stars(self') :
                          /\ scan(self', w) < scan(self', z)
                          /\ (w[1] = z[1] \/ w[2] = z[2])
          /\ \A z \in Zeros(self') :
                \E w \in Stars(self') : w[1] = z[1] \/ w[2] = z[2]
          /\ Primes(self') = {}
          /\ NoCovers(self')]_vars

\* step 2 has returned on a 3 x 3 matrix and has left a zero without a star,
\* because a star scanned earlier stands in its row or column
C22_Witness ==
    /\ step = 3 /\ self.n = 3 /\ self = AfterStep2
    /\ Zeros(self) \ Stars(self) # {}
    /\ Cardinality(Stars(self)) = 2

\* the stars of s are a perfect matching: n of them, one in each row and column
PerfectMatching(s) ==
    /\ Cardinality(Stars(s)) = s.n
    /\ \A i \in Idx(s.n) : \E z \in Stars(s) : z[1] = i
    /\ \A j \in Idx(s.n) : \E z \in Stars(s) : z[2] = j

\* C23: when step 3 returns no row is covered and a column is covered exactly
\* when it holds a star; step 3 goes to DONE exactly when all n columns are
\* covered, and then the stars are a perfect matching of the padded matrix.
C23_ColumnCover ==
    [][step = 3 =>
          /\ \A i \in Idx(self'.n) : ~self'.row_covered[i]
          /\ \A j \in Idx(self'.n) :
                self'.col_covered[j] <=> \E z \in Stars(self') : z[2] = j
          /\ step' = 7 <=> \A j \in Idx(self'.n) : self'.col_covered[j]
          /\ step' = 7 => PerfectMatching(self')]_vars

\* step 3 has gone to DONE on a 3 x 3 matrix in a call that went through the
\* matrix adjustment of step 6
C23_Witness ==
    /\ step = 7 /\ self.n = 3 /\ self.C # Reduced
    /\ \A j \in Idx(self.n) : self.col_covered[j]

\* the zeros of s in an uncovered row and an uncovered column
UncoveredZeros(s) ==
    {z \in Zeros(s) : ~s.row_covered[z[1]] /\ ~s.col_covered[z[2]]}

StarInRow(s, i) == \E z \in Stars(s) : z[1] = i

\* C24: step 4 leaves for step 6 only when no zero is in an uncovered row and
\* an uncovered column, and for step 5 only with (Z0_r, Z0_c) a primed zero in
\* an uncovered row and column whose row holds no star. Every other cell it
\* primes is a zero that was uncovered, in a row that holds a star: that row
\* is covered afterwards and the column of the star is uncovered. Covers
\* change in no other way, and the matrix and the stars do not change.
C24_PrimeAndCover ==
    [][step = 4 =>
          LET last == IF step' = 5 THEN {<<self'.Z0_r, self'.Z0_c>>} ELSE {}
              primed == (Primes(self') \ Primes(self)) \ last
          IN  /\ step' = 6 => UncoveredZeros(self') = {}
              /\ step' = 5 =>
                    /\ last \subseteq Primes(self') \cap UncoveredZeros(self')
                    /\ ~StarInRow(self', self'.Z0_r)
              /\ \A p \in primed :
                    /\ p \in Zeros(self)
                    /\ ~self.row_covered[p[1]] /\ ~self'.col_covered[p[2]]
                    /\ StarInRow(self, p[1])
                    /\ self'.row_covered[p[1]]
                    /\ \A z \in Stars(self) : z[1] = p[1] => ~self'.col_covered[z[2]]
              /\ \A i \in Idx(self.n) :
                    self'.row_covered[i] <=>
                        (self.row_covered[i] \/ \E p \in primed : p[1] = i)
              /\ \A j \in Idx(self.n) :
                    self'.col_covered[j] <=>
                        /\ self.col_covered[j]
                        /\ ~\E p \in primed : \E z \in Stars(self) :
                              z[1] = p[1] /\ z[2] = j
              /\ self'.C = self.C /\ Stars(self') = Stars(self)]_vars

\* step 4 has gone to step 5 after it covered a row and uncovered a column on
\* the way
C24_Witness ==
    /\ step = 5
    /\ <<self.Z0_r, self.Z0_c>> \in Primes(self)
    /\ \E i \in Idx(self.n) : self.row_covered[i]
    /\ \E z \in Stars(self) : ~self.col_covered[z[2]]

\* C25: in step 5 the path alternates from the primed zero Z0 over the star of
\* its column to the prime of that star's row, and so on: every prime lookup
\* finds a primed cell (none returns -1), the path ends at a primed zero whose
\* column holds no star, no write falls outside the path buffer, and when
\* step 5 returns no cell is primed and no row or column is covered.
C25_PathWellFormed ==
    [][step = 5 =>
          LET path == step5_path(self, << <<self.Z0_r, self.Z0_c>> >>)
              last == path[Len(path)]
          IN  /\ raised' = ""
              /\ \A k \in 1 .. Len(path) : self'.path[k - 1] = path[k]
              /\ \A k \in 1 .. Len(path) :
                    IF k % 2 = 1 THEN path[k] \in Primes(self)
                    ELSE path[k] \in Stars(self)
              /\ \A k \in 1 .. (Len(path) - 1) :
                    IF k % 2 = 1 THEN path[k + 1][2] = path[k][2]
                    ELSE path[k + 1][1] = path[k][1]
              /\ Len(path) % 2 = 1
              /\ ~\E z \in Stars(self) : z[2] = last[2]
              /\ Primes(self') = {}
              /\ NoCovers(self')]_vars

\* step 5 has returned from a path of three cells or more: the star on it is
\* gone, the primes before and after it are stars
C25_Witness ==
    /\ step = 3 /\ self.n >= 2 /\ NoCovers(self) /\ Primes(self) = {}
    /\ self.path[1] # self.path[0]
    /\ self.path[1][2] = self.path[0][2] /\ self.path[2][1] = self.path[1][1]
    /\ self.path[0] \in Stars(self) /\ self.path[2] \in Stars(self)
    /\ self.path[1] \notin Stars(self)

\* the cells of s in an uncovered row and an uncovered column
Uncovered(s) == {z \in Cells(s) : ~s.row_covered[z[1]] /\ ~s.col_covered[z[2]]}

\* the adjustment of step 6 with exact arithmetic: the cells of C afterwards
Adjusted(s, m) ==
    [i \in Idx(s.n) |-> [j \in Idx(s.n) |->
        IF s.row_covered[i] /\ s.col_covered[j] THEN s.C[i][j] + m
        ELSE IF ~s.row_covered[i] /\ ~s.col_covered[j] THEN s.C[i][j] - m
             ELSE s.C[i][j]]]

C27_Step6Progress ==
    [][/\ step = 6 =>
             /\ Uncovered(self) # {}
             /\ \A z \in Uncovered(self) : self.C[z[1]][z[2]] > 0
             /\ UncoveredZeros(self') # {}
       /\ (step = 4 /\ UncoveredZeros(self) # {}) =>
             Primes(self') \ Primes(self) # {}
       /\ (step = 4 /\ step' = 6 /\ UncoveredZeros(self) = {}) =>
             /\ self' = self
             /\ \A i \in Idx(self.n) : ~self.row_covered[i]]_vars

\* step 6 has run and has left a zero in an uncovered row and column while a
\* row is covered: step 4 is about to prime it
C27_Witness ==
    /\ step = 4 /\ UncoveredZeros(self) # {}
    /\ \E i \in Idx(self.n) : self.row_covered[i]

\* C28: in every state of a compute call every starred cell and every primed
\* cell holds 0 in the working matrix, and no entry of the working matrix is
\* negative.
C28_MarksOnZeros ==
    step \in 1 .. 7 =>
        /\ Stars(self) \cup Primes(self) \subseteq Zeros(self)
        /\ \A z \in Cells(self) : self.C[z[1]][z[2]] >= 0

\* step 6 has adjusted the matrix while two stars and a prime are in place
C28_Witness ==
    /\ step = 4 /\ self.C # Reduced
    /\ Cardinality(Stars(self)) >= 2 /\ Primes(self) # {}
    /\ \E i \in Idx(self.n) : self.row_covered[i]

\* C29: no step of compute lowers the number of stars; step 5 unstars the k
\* stars on its path and stars the k + 1 primes on it, so every run of step 5
\* raises the number of stars by one, to n at most: step 5 runs at most n
\* times in a call.
C29_StarsGrow ==
    [][/\ step \in 1 .. 6 => Cardinality(Stars(self')) >= Cardinality(Stars(self))
       /\ step = 5 =>
             LET path == step5_path(self, << <<self.Z0_r, self.Z0_c>> >>)
                 odd == {path[k] : k \in {l \in 1 .. Len(path) : l % 2 = 1}}
                 even == {path[k] : k \in {l \in 1 .. Len(path) : l % 2 = 0}}
             IN  /\ Stars(self') = (Stars(self) \ even) \cup odd
                 /\ even \subseteq Stars(self) /\ odd \cap Stars(self) = {}
                 /\ Cardinality(odd) = Cardinality(even) + 1
                 /\ Cardinality(Stars(self')) = Cardinality(Stars(self)) + 1
                 /\ Cardinality(Stars(self')) <= self.n]_vars

\* step 5 has returned on a 3 x 3 matrix with the third star, from a path that
\* unstarred a cell
C29_Witness ==
    /\ step = 3 /\ self.n = 3 /\ Cardinality(Stars(self)) = 3
    /\ NoCovers(self)
    /\ self.path[1] # self.path[0] /\ self.path[1] \notin Stars(self)
    /\ self.path[0] \in Stars(self) /\ self.path[2] \in Stars(self)
    /\ Reduced[self.path[1][1]][self.path[1][2]] = 0

----------------------------------------------------------------------------
(* Properties of KdeDistribution.getMaximumPDF *)

\* the largest density on the grid over the bounding interval of o
MaxOnGrid(o) ==
    LET pdf == evaluate(o.kernel, linspace(o.minValue, o.maxValue)).v
    IN  CHOOSE m \in {pdf[i] : i \in 1 .. Len(pdf)} : \A i \in 1 .. Len(pdf) : m >= pdf[i]

\* C30: getMaximumPDF returns the largest density over the bounding interval
\* of the distribution, whatever getPDFValue calls came before it.
C30_MaximumPDF ==
    [][KdeGetMaximumPDF => kde'.ret.v[1] = MaxOnGrid(kde.born)]_vars

----------------------------------------------------------------------------
(* Equality across distribution kinds *)

\* C31: for any two distributions of different kinds (e.g. Normal(a, b) and
\* Uniform(a, b) built from the same two numbers), __eq__ returns false.
C31_KindsDiffer ==
    IsCall("eq") =>
        LET a == distribution.args[1]
            b == distribution.args[2]
        IN  a.distType # b.distType => ~distribution.out.eq

----------------------------------------------------------------------------
(* samplesToDistribution *)

Distinct(samples) == Cardinality({samples[i] : i \in DOMAIN samples})

\* C32: samplesToDistribution returns a distribution of the requested kind for
\* each of the kind constants NORMAL, UNIFORM, EXP and KDE whenever the sample
\* set holds at least two distinct values, and raises ValueError only for an
\* empty sample set or a kind outside those four.
C32_RequestedKind ==
    (IsCall("samplesToDistribution") /\ distribution.args[2].t = "int") =>
        LET samples == distribution.args[1]
            kind == distribution.args[2].v[1]
            out == distribution.out
        IN  /\ (kind \in {NORMAL, UNIFORM, EXP, KDE} /\ Distinct(samples) >= 2) =>
                   (out.raised = "" /\ out.value.distType = kind)
            /\ out.raised = "ValueError" =>
                   (Len(samples) = 0 \/ kind \notin {NORMAL, UNIFORM, EXP, KDE})

----------------------------------------------------------------------------
(* Event records: asJson and load *)

SameEvent(a, b) == a.eventType = b.eventType /\ a.timestamp = b.timestamp

\* C33: for every event e, load(e.asJson()) returns an event equal to e (same
\* eventType and timestamp) with the same occurred flag, and when e.triggered
\* is set the loaded event's triggered is equal to e.triggered, has the same
\* occurred flag as e.triggered, and has triggeredBy pointing back at the
\* loaded event.
C33_RoundTrip ==
    events.last = "load(asJson)" =>
        LET objs == events.objs
            e == objs[events.value[1]]
            out == events.out[1]
        IN  /\ out.raised = ""
            /\ SameEvent(objs[out.ref], e)
            /\ objs[out.ref].occurred = e.occurred
            /\ e.triggered # no_event =>
                   /\ objs[out.ref].triggered # no_event
                   /\ SameEvent(objs[objs[out.ref].triggered], objs[e.triggered])
                   /\ objs[objs[out.ref].triggered].occurred = objs[e.triggered].occurred
                   /\ objs[objs[out.ref].triggered].triggeredBy = out.ref

----------------------------------------------------------------------------
(* Properties of Timer *)

\* a call of stop or stopAndLog, from the program or from an exit handler
Stops == TimerStop \/ TimerStopAndLog \/ TimerAtExit

\* C34: after start(), the first stop() or stopAndLog() sets difference, and
\* over any later sequence of start, stop and stopAndLog calls difference never
\* changes; stopAndLog(abort=True) on an already stopped timer returns without
\* logging and without changing any field.
C34_OneMeasurement ==
    [][timer.pc # "none" =>
          /\ (Stops /\ timer.self.startTime # None /\ timer.self.difference = None) =>
                 /\ timer'.self.difference # None
                 /\ timer'.ret.raised = ""
          /\ timer.self.difference # None => timer'.self.difference = timer.self.difference
          /\ (timer.self.difference # None /\ timer'.last.op = "stopAndLog"
                  /\ timer'.last.abort) =>
                 /\ timer'.self = timer.self
                 /\ timer'.warnings = timer.warnings
                 /\ timer'.ret = [raised |-> "", value |-> None]]_vars

\* a stopped timer was started again at a later time and stopAndLog(abort=True)
\* has just returned on it
C34_Witness ==
    /\ timer.pc # "none"
    /\ timer.self.difference # None
    /\ timer.self.startTime[1] > 0
    /\ timer.atexit = MaxStarts
    /\ timer.last = [op |-> "stopAndLog", abort |-> TRUE]
    /\ timer.ret.value = None

----------------------------------------------------------------------------
(* The path buffer of step 5 *)

\* C35: in every execution of step 5 on an n x n working matrix the path index
\* count stays below 2n: the path holds at most 2k+1 cells for k < n starred
\* zeros and visits no cell twice, so every write to path[count] is inside the
\* 2n-row buffer allocated by compute.
C35_PathInBuffer ==
    [][step = 5 =>
          LET path == step5_path(self, << <<self.Z0_r, self.Z0_c>> >>)
              k == Cardinality(Stars(self))
          IN  /\ DOMAIN self.path = Idx(2 * self.n)
              /\ find_star_in_col(self, path[Len(path)][2]) < 0
              /\ k < self.n
              /\ Len(path) <= 2 * k + 1
              /\ Len(path) - 1 < 2 * self.n
              /\ \A i, j \in 1 .. Len(path) : path[i] = path[j] => i = j
              /\ raised' = "" /\ step' = 3]_vars

\* step 5 has returned from the longest path an n x n matrix allows, 2n - 1
\* cells, for n >= 2: its last three cells are a new star, the star it
\* replaced in the same row and the new star in that one's column
C35_Witness ==
    /\ step = 3 /\ self.n >= 2 /\ NoCovers(self) /\ Primes(self) = {}
    /\ LET last == 2 * self.n - 2
       IN  /\ self.path[last] \in Stars(self)
           /\ self.path[last - 1] \notin Stars(self)
           /\ self.path[last - 2] \in Stars(self)
           /\ self.path[last - 1][1] = self.path[last][1]
           /\ self.path[last - 1][2] = self.path[last - 2][2]
           /\ Cardinality({self.path[c] : c \in 0 .. last}) = last + 1
           /\ Cardinality(Stars(self)) = self.n

=============================================================================
